---- MODULE Spec2Model ----
(***************************************************************************)
(* Model of the corpus preparation pipeline of piper1-gpl:                 *)
(*   - script/felix_mirage_v2_align_whisperx.py  (Stage B, the Sequential  *)
(*     Aligner: window search, acceptance, cursor, emitted records)        *)
(*   - script/text_splitter/01_text_splitter.py  (Stage A, the Chunker:    *)
(*     splitting of over-long sentences, greedy packing, orphan merge)     *)
(*                                                                         *)
(* Text is modelled as TLA+ strings, read with Len, SubSeq and \o.         *)
(* Python indexes are kept 0-based; Ch(s, i) reads Python's s[i].          *)
(* Times are integers in microseconds; a similarity is an exact fraction   *)
(* <<n, d>>; Python's None is the empty sequence and a value v that may    *)
(* be None is <<v>>.                                                       *)
(***************************************************************************)
EXTENDS Integers, Sequences, FiniteSets, TLC

VARIABLES
    \* ---- Stage B: felix_mirage_v2_align_whisperx.py, main() ----
    words,              \* list[Word] of the audio file being aligned
    chunks,             \* item["sentences"]: the Stage A chunk list
    min_sim,            \* args.min_sim, a fraction <<n, d>>
    max_extra_tokens,   \* args.max_extra_tokens
    max_candidates,     \* args.max_candidates
    pad_seconds,        \* args.pad_seconds, in microseconds
    cursor,             \* word index from which the next chunk is searched
    ci,                 \* number of entries of chunks the loop has consumed
    m,                  \* result of the last _best_match_sequential call
    out_lines,          \* the records emitted so far
    accepted,           \* history: the word-index span of each accepted match
    total_chunks,
    matched_chunks,
    unresolved_chunks,
    pc,                 \* position of main() in the chunk loop
    \* ---- Stage A: 01_text_splitter.py, smart_grouping() ----
    sentences,          \* the input sentence list
    max_len,
    min_len,
    si,                 \* number of sentences / expanded units consumed
    expanded,
    chunks_out,         \* smart_grouping's local list "chunks"
    current,
    current_len,
    gpc,                \* position of smart_grouping()
    \* ---- dataset_quality_report.py, main() ----
    rows,               \* read_metadata(): the list of Row(row_num, wav, text)
    qargs,              \* args: suspect_top, min_text_len, max_text_len
    qi,                 \* number of rows the first loop has consumed
    normalized_text_to_first,   \* dict: normalized text -> first row number
    duplicate_rows,
    durations,
    text_lens,
    suspects,
    suspects_sorted,    \* what is written to suspects.tsv
    qpc,                \* position of main()
    \* ---- validate_dataset_full.py, main() ----
    disk,               \* the dataset directory: config, metadata, wavs/
    vargs,              \* args: whisper, require_whisper, text lengths
    metadata_rows,      \* read_metadata(): (row_num, wav, text, row_issue)
    vi,                 \* number of rows the loop has consumed
    errors,
    seen,
    missing_wav,
    duplicate_wav,
    text_issues,
    audio_issues,
    whisper_issues,
    similarity_values,
    extra_wav,
    tsv,                \* the rows of validation_<ts>.tsv
    verdict,
    exit_code,
    vpc,                \* position of main()
    \* ---- validate_dataset_whisper_sharded.py and
    \*      prepare_dataset_whisper_segments_multi.py, main() ----
    lines,              \* _read_metadata_lines(): the metadata lines
    wavs,               \* _iter_wavs(): the sorted input files (multi)
    heard,              \* what whisper hears in each input file (multi)
    gpus,               \* the ids of --gpus
    workers_per_gpu,
    shards,
    procs,              \* the Popen objects, with what the OS knows of them
    shard_results,      \* ShardResult list / exit_codes
    heartbeats,         \* heartbeat lines printed
    overall,            \* the status printed at the end
    merged,             \* rows of the merged metadata_2col.csv (multi)
    ret,                \* the exit code of the orchestrator
    opc,                \* position of main()
    \* ---- felix_mirage_v2_align_whisperx.py and 01_text_splitter.py,
    \*      main() as a run against the file system ----
    run_args,           \* the tool and its options
    out_file,           \* what is at the output path: None or Some(lines)
    run_items,          \* items: the Stage A items / the manifest lines
    item_i,             \* how many of them the loop has taken
    seen_nonempty,      \* process_manifest(): non-blank lines seen
    run_lines,          \* out_lines / output, over the whole run
    run_ret,            \* the exit code of the run
    rpc,                \* position of main()
    \* ---- cutlist_review_ui.py ----
    fs,                 \* the files: path -> None or Some(records)
    cargs,              \* --cutlist, --out, --mode
    out_path,
    crows,              \* rows, the records in memory
    indices,
    pos,                \* state_pos of the page
    cpc,                \* position of main() / the page
    \* ---- _best_match_sequential(), the candidate positions of one
    \*      chunk on a long recording ----
    stream,             \* transcript, as its length and where the anchor is
    scan_from,          \* start_from
    scan_cap,           \* max_candidates
    scan_i,             \* i of the first loop
    scan_positions,     \* positions
    kpc                 \* position in the function

alignVars == <<words, chunks, min_sim, max_extra_tokens, max_candidates,
               pad_seconds, cursor, ci, m, out_lines, accepted, total_chunks,
               matched_chunks, unresolved_chunks, pc>>
groupVars == <<sentences, max_len, min_len, si, expanded, chunks_out,
               current, current_len, gpc>>
qualVars == <<rows, qargs, qi, normalized_text_to_first, duplicate_rows,
              durations, text_lens, suspects, suspects_sorted, qpc>>
validVars == <<disk, vargs, metadata_rows, vi, errors, seen, missing_wav,
               duplicate_wav, text_issues, audio_issues, whisper_issues,
               similarity_values, extra_wav, tsv, verdict, exit_code, vpc>>
shardVars == <<lines, wavs, heard, gpus, workers_per_gpu, shards, procs,
               shard_results, heartbeats, overall, merged, ret, opc>>
runVars == <<run_args, out_file, run_items, item_i, seen_nonempty, run_lines,
             run_ret, rpc>>
reviewVars == <<fs, cargs, out_path, crows, indices, pos, cpc>>
candVars == <<stream, scan_from, scan_cap, scan_i, scan_positions, kpc>>
toolVars == <<runVars, reviewVars, candVars>>
laterVars == <<qualVars, validVars, shardVars, toolVars>>
vars == <<alignVars, groupVars, laterVars>>

\* The report tool is not running.
QualIdle ==
    /\ rows = <<>> /\ qargs = <<>> /\ qi = 0
    /\ normalized_text_to_first = <<>> /\ duplicate_rows = <<>>
    /\ durations = <<>> /\ text_lens = <<>>
    /\ suspects = <<>> /\ suspects_sorted = <<>> /\ qpc = "idle"
\* The validator is not running.
ValidIdle ==
    /\ disk = <<>> /\ vargs = <<>> /\ metadata_rows = <<>> /\ vi = 0
    /\ errors = <<>> /\ seen = {} /\ missing_wav = <<>> /\ duplicate_wav = <<>>
    /\ text_issues = <<>> /\ audio_issues = <<>> /\ whisper_issues = <<>>
    /\ similarity_values = <<>> /\ extra_wav = <<>> /\ tsv = <<>>
    /\ verdict = "" /\ exit_code = <<>> /\ vpc = "idle"
\* No orchestrator is running.
ShardIdle ==
    /\ lines = <<>> /\ wavs = <<>> /\ heard = <<>> /\ gpus = <<>>
    /\ workers_per_gpu = 0 /\ shards = <<>> /\ procs = <<>>
    /\ shard_results = <<>> /\ heartbeats = 0 /\ overall = ""
    /\ merged = <<>> /\ ret = <<>> /\ opc = "idle"
\* Neither the aligner nor the splitter is run as a command.
RunIdle ==
    /\ run_args = <<>> /\ out_file = <<>> /\ run_items = <<>> /\ item_i = 0
    /\ seen_nonempty = 0 /\ run_lines = <<>> /\ run_ret = <<>>
    /\ rpc = "idle"
\* The reviewer is not running.
ReviewIdle ==
    /\ fs = <<>> /\ cargs = <<>> /\ out_path = "" /\ crows = <<>>
    /\ indices = <<>> /\ pos = 0 /\ cpc = "idle"
\* No candidate scan is going on.
CandIdle ==
    /\ stream = <<>> /\ scan_from = 0 /\ scan_cap = 0 /\ scan_i = 0
    /\ scan_positions = <<>> /\ kpc = "idle"
ToolIdle == RunIdle /\ ReviewIdle /\ CandIdle
LaterIdle == QualIdle /\ ValidIdle /\ ShardIdle /\ ToolIdle

----------------------------------------------------------------------------
(* Generic helpers.                                                        *)

None == <<>>
Some(v) == <<v>>
Max(a, b) == IF a >= b THEN a ELSE b
Min(a, b) == IF a <= b THEN a ELSE b

\* Python's s[i] for a 0-based index i.
Ch(s, i) == SubSeq(s, i + 1, i + 1)
\* Python's s[lo:hi] for 0 <= lo, hi (hi is clipped to len(s)).
Slice(s, lo, hi) == SubSeq(s, lo + 1, Min(hi, Len(s)))

\* Fractions <<n, d>> with d > 0, compared by cross multiplication.
RatLT(p, q) == p[1] * q[2] < q[1] * p[2]
RatGT(p, q) == RatLT(q, p)
RatEQ(p, q) == p[1] * q[2] = q[1] * p[2]
RatGE(p, q) == ~RatLT(p, q)

----------------------------------------------------------------------------
(* difflib.SequenceMatcher(a=a, b=b).ratio() as _similarity uses it.       *)
(* The matcher's "autojunk" heuristic only acts when len(b) >= 200, which  *)
(* is beyond the strings of this model.                                    *)

\* Length of the common run of a[i:ahi] and b[j:bhi] starting at (i, j).
RECURSIVE RunLen(_, _, _, _, _, _)
RunLen(a, b, i, ahi, j, bhi) ==
    IF i < ahi /\ j < bhi /\ Ch(a, i) = Ch(b, j)
    THEN 1 + RunLen(a, b, i + 1, ahi, j + 1, bhi)
    ELSE 0

\* The largest member of a non-empty set of integers, and the smallest.
MaxOf(S) == CHOOSE x \in S : \A y \in S : y <= x
MinOf(S) == CHOOSE x \in S : \A y \in S : x <= y

\* SequenceMatcher.find_longest_match: the longest block <<i, j, size>>; of
\* the longest, the one starting earliest in a; of those, the one starting
\* earliest in b. Without any common element it is <<alo, blo, 0>>.
find_longest_match(a, b, alo, ahi, blo, bhi) ==
    LET run == [i \in alo .. ahi - 1 |->
                   [j \in blo .. bhi - 1 |-> RunLen(a, b, i, ahi, j, bhi)]]
        rowMax == [i \in alo .. ahi - 1 |->
                      MaxOf({run[i][j] : j \in blo .. bhi - 1})]
        k == MaxOf({rowMax[i] : i \in alo .. ahi - 1})
    IN  IF k = 0 THEN <<alo, blo, 0>>
        ELSE LET i == MinOf({x \in alo .. ahi - 1 : rowMax[x] = k})
                 j == MinOf({y \in blo .. bhi - 1 : run[i][y] = k})
             IN  <<i, j, k>>

\* Sum of the sizes of SequenceMatcher.get_matching_blocks().
RECURSIVE MatchedChars(_, _, _, _, _, _)
MatchedChars(a, b, alo, ahi, blo, bhi) ==
    IF alo >= ahi \/ blo >= bhi THEN 0
    ELSE LET x == find_longest_match(a, b, alo, ahi, blo, bhi)
             i == x[1]
             j == x[2]
             k == x[3]
         IN  IF k = 0 THEN 0
             ELSE k + MatchedChars(a, b, alo, i, blo, j)
                    + MatchedChars(a, b, i + k, ahi, j + k, bhi)

\* _similarity(a, b): 2.0 * matches / (len(a) + len(b)), as a fraction.
_similarity(a, b) ==
    IF a = "" /\ b = "" THEN <<1, 1>>
    ELSE <<2 * MatchedChars(a, b, 0, Len(a), 0, Len(b)), Len(a) + Len(b)>>

----------------------------------------------------------------------------
(* Stage B text handling: _normalize_text and _tokenize.                   *)

IsSpace(c) == c \in {" ", "|"}          \* "|", "\r", "\n" become " "
Lower(c) == IF c = "A" THEN "a" ELSE IF c = "B" THEN "b" ELSE c
IsTokenChar(c) == c \in {"a", "b", "A", "B"}   \* _TOKEN_RE, on model letters

\* str.strip()
RECURSIVE LStrip(_)
LStrip(s) == IF s # "" /\ Ch(s, 0) = " " THEN LStrip(Slice(s, 1, Len(s))) ELSE s
RECURSIVE RStrip(_)
RStrip(s) ==
    IF s # "" /\ Ch(s, Len(s) - 1) = " " THEN RStrip(Slice(s, 0, Len(s) - 1)) ELSE s
Strip(s) == RStrip(LStrip(s))

\* _normalize_text: separators to spaces, lower case, runs of whitespace
\* collapsed to one space, stripped.
RECURSIVE NormChars(_, _)
NormChars(s, prevSpace) ==
    IF s = "" THEN ""
    ELSE LET c == Ch(s, 0)
             rest == Slice(s, 1, Len(s))
         IN  IF IsSpace(c)
             THEN (IF prevSpace THEN "" ELSE " ") \o NormChars(rest, TRUE)
             ELSE Lower(c) \o NormChars(rest, FALSE)
_normalize_text(text) == Strip(NormChars(text, FALSE))

\* _TOKEN_RE.finditer: the maximal runs of token characters, left to right.
RECURSIVE TokenRuns(_, _)
TokenRuns(s, run) ==
    IF s = "" THEN (IF run = "" THEN <<>> ELSE <<run>>)
    ELSE LET c == Ch(s, 0)
             rest == Slice(s, 1, Len(s))
         IN  IF IsTokenChar(c) THEN TokenRuns(rest, run \o c)
             ELSE (IF run = "" THEN <<>> ELSE <<run>>) \o TokenRuns(rest, "")
_tokenize(text) == TokenRuns(_normalize_text(text), "")

\* " ".join(tokens)
RECURSIVE Join(_)
Join(toks) ==
    IF toks = <<>> THEN ""
    ELSE IF Len(toks) = 1 THEN toks[1]
    ELSE toks[1] \o " " \o Join(Tail(toks))

----------------------------------------------------------------------------
(* _best_match_sequential                                                  *)

ProbeCount == 2000    \* "~2k probes max"

Match(start_i, end_i, sim) == [start_i |-> start_i, end_i |-> end_i, sim |-> sim]

\* The first loop: positions i >= start_from whose token is the target's
\* first token, ascending, stopping once max_candidates (if non-zero) are
\* collected.
RECURSIVE FirstTokenPositions(_, _, _, _, _)
FirstTokenPositions(transcript, first, i, max_cand, positions) ==
    IF i >= Len(transcript) THEN positions
    ELSE IF transcript[i + 1].token = first
         THEN LET p2 == Append(positions, i)
              IN  IF max_cand # 0 /\ Len(p2) >= max_cand THEN p2
                  ELSE FirstTokenPositions(transcript, first, i + 1, max_cand, p2)
         ELSE FirstTokenPositions(transcript, first, i + 1, max_cand, positions)

\* list(range(start_from, stop, step))
RECURSIVE Range(_, _, _)
Range(lo, stop, step) ==
    IF lo >= stop THEN <<>> ELSE <<lo>> \o Range(lo + step, stop, step)

\* Faulty variant: the scan ignores start_from and begins at word 0.
CandidatePositionsFromZero(transcript, target_tokens, start_from, max_cand) ==
    LET positions == FirstTokenPositions(transcript, target_tokens[1],
                                         0, max_cand, <<>>)
    IN  IF positions # <<>> THEN positions
        ELSE Range(0, Len(transcript), Max(1, Len(transcript) \div ProbeCount))

\* The candidate start positions, with the sparse fallback.
CandidatePositions(transcript, target_tokens, start_from, max_cand) ==
    LET positions == FirstTokenPositions(transcript, target_tokens[1],
                                         start_from, max_cand, <<>>)
    IN  IF positions # <<>> THEN positions
        ELSE LET step == Max(1, Len(transcript) \div ProbeCount)
             IN  Range(start_from, Len(transcript), step)

WindowJoin(transcript, start_i, end_i) ==
    Join([k \in 1 .. (end_i - start_i) |-> transcript[start_i + k].token])

\* Faulty variant: ">=" for ">", so the last of equal windows is kept.
KeepLastBest(best, cand) ==
    IF best = None THEN Some(cand)
    ELSE IF RatGE(cand.sim, best[1].sim) THEN Some(cand) ELSE best

\* "if best is None or sim > best.sim"
KeepBest(best, cand) ==
    IF best = None THEN Some(cand)
    ELSE IF RatGT(cand.sim, best[1].sim) THEN Some(cand) ELSE best

\* The inner loop over L, from L up to hi, for one start position.
RECURSIVE ScanLengths(_, _, _, _, _, _)
ScanLengths(transcript, tgt_join, start_i, L, hi, best) ==
    IF L > hi THEN best
    ELSE LET end_i == start_i + L
         IN  IF end_i > Len(transcript) THEN best
             ELSE LET sim == _similarity(WindowJoin(transcript, start_i, end_i),
                                         tgt_join)
                  IN  ScanLengths(transcript, tgt_join, start_i, L + 1, hi,
                                  KeepBest(best, Match(start_i, end_i, sim)))

\* The outer loop over the candidate positions, in list order.
RECURSIVE ScanPositions(_, _, _, _, _, _)
ScanPositions(transcript, tgt_join, positions, lo, hi, best) ==
    IF positions = <<>> THEN best
    ELSE ScanPositions(transcript, tgt_join, Tail(positions), lo, hi,
            ScanLengths(transcript, tgt_join, Head(positions), lo, hi, best))

\* Match | None, as Some(match) | None.
_best_match_sequential(transcript, target_tokens, start_from, max_extra, max_cand) ==
    IF target_tokens = <<>> THEN None
    ELSE LET tgt_len == Len(target_tokens)
             lo == Max(1, tgt_len - max_extra)
             hi == tgt_len + max_extra
         IN  ScanPositions(transcript, Join(target_tokens),
                 CandidatePositions(transcript, target_tokens, start_from, max_cand),
                 lo, hi, None)

----------------------------------------------------------------------------
(* main(): times and rounding.                                             *)

ClampHiUs == 2000000000   \* stands for 1e9 s; every model time is far below

_clamp(v, lo, hi) == Max(lo, Min(hi, v))

\* round(x, 3) on a time in microseconds; exact halves go to the even side.
Round3(t) ==
    LET q == t \div 1000
        r == t % 1000
    IN  IF r > 500 \/ (r = 500 /\ q % 2 = 1) THEN (q + 1) * 1000 ELSE q * 1000

\* round(x, 4) on a fraction; the result is a number of 1/10000.
Round4(p) ==
    LET q == (10000 * p[1]) \div p[2]
        r2 == 2 * ((10000 * p[1]) % p[2])
    IN  IF r2 > p[2] \/ (r2 = p[2] /\ q % 2 = 1) THEN <<q + 1, 10000>>
        ELSE <<q, 10000>>

\* Faulty variant: the padded start is not clamped at 0.
start_tUnclamped(ws, mt, pad) == ws[mt.start_i + 1].start - pad

start_t(ws, mt, pad) == _clamp(ws[mt.start_i + 1].start - pad, 0, ClampHiUs)
end_t(ws, mt, pad) == _clamp(ws[mt.end_i].end + pad, 0, ClampHiUs)

----------------------------------------------------------------------------
(* Inputs of the Stage B model.                                            *)

MaxWords == 3      \* longest word stream
MaxChunks == 2     \* longest chunk list

Tokens == {"a", "ab"}
audio_rel == "wavs/a.wav"

\* Word timings of a stream: "spaced" is the stream of the specification's example
\* (0.0-0.4 s, 0.5-0.9 s, ...); "dense" has words 0.2 ms long, 0.2 ms apart.
WordStart(profile, i) ==
    IF profile = "spaced" THEN (i - 1) * 500000 ELSE 200 + (i - 1) * 400
WordEnd(profile, i) ==
    WordStart(profile, i) + (IF profile = "spaced" THEN 400000 ELSE 200)

Word(token, start, end) == [token |-> token, start |-> start, end |-> end]

WordStreams(pr) ==
    UNION {{[i \in 1 .. n |-> Word(toks[i], WordStart(pr, i), WordEnd(pr, i))] :
               toks \in [1 .. n -> Tokens]} :
           n \in 1 .. MaxWords}

\* An entry of item["sentences"]: a string, or something that is no string.
Str(text) == [isstr |-> TRUE, text |-> text]
NotAString == [isstr |-> FALSE, text |-> ""]
ChunkEntries == {NotAString, Str(" "), Str(","), Str("Ab|a "), Str("b")}
ChunkLists == UNION {[1 .. n -> ChunkEntries] : n \in 1 .. MaxChunks}

MinSims == {<<50, 100>>, <<80, 100>>}            \* --min-sim 0.50, 0.80
\* A word timing with a --pad-seconds value: the default pad 0.10 s and a
\* negative pad -0.3 s on spaced words, no pad on dense words.
Timings == {<<"spaced", 100000>>, <<"spaced", -300000>>, <<"dense", 0>>}
MaxExtraTokens == {0, 1}
MaxCandidates == {0, 1}                          \* 0: no cap

GroupIdle ==
    /\ sentences = <<>> /\ max_len = 0 /\ min_len = 0 /\ si = 0
    /\ expanded = <<>> /\ chunks_out = <<>> /\ current = <<>>
    /\ current_len = 0 /\ gpc = "idle"

InitAlign ==
    /\ \E tm \in Timings : words \in WordStreams(tm[1]) /\ pad_seconds = tm[2]
    /\ chunks \in ChunkLists
    /\ min_sim \in MinSims
    /\ max_extra_tokens \in MaxExtraTokens
    /\ max_candidates \in MaxCandidates
    /\ cursor = 0
    /\ ci = 0
    /\ m = None
    /\ out_lines = <<>>
    /\ accepted = <<>>
    /\ total_chunks = 0 /\ matched_chunks = 0 /\ unresolved_chunks = 0
    /\ pc = "loop"
    /\ GroupIdle /\ LaterIdle

----------------------------------------------------------------------------
(* main(): the loop over the chunks of one audio item.                     *)

inputVars == <<words, chunks, min_sim, max_extra_tokens, max_candidates, pad_seconds>>

\* The entry the loop is at, and the chunk after chunk.strip().
Entry == chunks[ci + 1]
Chunk == Strip(Entry.text)
\* Faulty variant: a chunk without any token is skipped as well.
IsChunkWithTokens(e) == e.isstr /\ _tokenize(e.text) # <<>>

IsChunk(e) == e.isstr /\ Strip(e.text) # ""

Rec(start, end, text, sim, status) ==
    [src_audio |-> audio_rel, start |-> start, end |-> end, text |-> text,
     sim |-> sim, status |-> status]

\* Faulty variant: the threshold is not applied.
RejectedOnlyNone(mt, threshold) == mt = None

\* "if m is None or m.sim < float(args.min_sim)"
Rejected(mt, threshold) ==
    IF mt = None THEN TRUE ELSE RatLT(mt[1].sim, threshold)

\* "if end_t <= start_t"
BadTimes(ws, mt, pad) == end_t(ws, mt, pad) <= start_t(ws, mt, pad)

\* Faulty variant: the cursor moves past the match before the record's
\* status is settled.
CursorAfterAnyMatch(status, cur, mt) ==
    IF mt = None THEN cur ELSE Max(cur, mt[1].end_i)

\* The cursor after the record of a chunk is emitted: both failure branches
\* "continue" before the update; acceptance does
\* "cursor = max(cursor, m.end_i)".
CursorAfter(status, cur, mt) ==
    IF status = "ok" THEN Max(cur, mt[1].end_i) ELSE cur

\* not isinstance(chunk, str), or chunk.strip() is empty: continue
SkipChunk ==
    /\ pc = "loop" /\ ci < Len(chunks)
    /\ ~IsChunk(Entry)
    /\ ci' = ci + 1
    /\ UNCHANGED <<inputVars, cursor, m, out_lines, accepted, total_chunks,
                   matched_chunks, unresolved_chunks, pc, groupVars, laterVars>>

\* total_chunks += 1; m = _best_match_sequential(...)
FindMatch ==
    /\ pc = "loop" /\ ci < Len(chunks)
    /\ IsChunk(Entry)
    /\ total_chunks' = total_chunks + 1
    /\ m' = _best_match_sequential(words, _tokenize(Chunk), cursor,
                                   max_extra_tokens, max_candidates)
    /\ pc' = "matched"
    /\ UNCHANGED <<inputVars, cursor, ci, out_lines, accepted, matched_chunks,
                   unresolved_chunks, groupVars, laterVars>>

EmitUnmatched ==
    /\ pc = "matched"
    /\ Rejected(m, min_sim)
    /\ unresolved_chunks' = unresolved_chunks + 1
    /\ out_lines' = Append(out_lines,
           Rec(None, None, Chunk, IF m = None THEN None ELSE Some(m[1].sim),
               "unmatched"))
    /\ cursor' = CursorAfter("unmatched", cursor, m)
    /\ ci' = ci + 1
    /\ pc' = "loop"
    /\ UNCHANGED <<inputVars, m, accepted, total_chunks, matched_chunks, groupVars, laterVars>>

EmitBadTimes ==
    /\ pc = "matched"
    /\ ~Rejected(m, min_sim)
    /\ BadTimes(words, m[1], pad_seconds)
    /\ unresolved_chunks' = unresolved_chunks + 1
    /\ out_lines' = Append(out_lines,
           Rec(None, None, Chunk, Some(m[1].sim), "bad_times"))
    /\ cursor' = CursorAfter("bad_times", cursor, m)
    /\ ci' = ci + 1
    /\ pc' = "loop"
    /\ UNCHANGED <<inputVars, m, accepted, total_chunks, matched_chunks, groupVars, laterVars>>

EmitOk ==
    /\ pc = "matched"
    /\ ~Rejected(m, min_sim)
    /\ ~BadTimes(words, m[1], pad_seconds)
    /\ matched_chunks' = matched_chunks + 1
    /\ cursor' = CursorAfter("ok", cursor, m)
    /\ accepted' = Append(accepted, <<m[1].start_i, m[1].end_i>>)
    /\ out_lines' = Append(out_lines,
           Rec(Some(Round3(start_t(words, m[1], pad_seconds))),
               Some(Round3(end_t(words, m[1], pad_seconds))),
               Chunk, Some(Round4(m[1].sim)), "ok"))
    /\ ci' = ci + 1
    /\ pc' = "loop"
    /\ UNCHANGED <<inputVars, m, total_chunks, unresolved_chunks, groupVars, laterVars>>

\* The chunk list is exhausted.
EndItem ==
    /\ pc = "loop" /\ ci = Len(chunks)
    /\ pc' = "done"
    /\ UNCHANGED <<inputVars, cursor, ci, m, out_lines, accepted, total_chunks,
                   matched_chunks, unresolved_chunks, groupVars, laterVars>>

NextAlign ==
    \/ SkipChunk
    \/ FindMatch
    \/ EmitUnmatched
    \/ EmitBadTimes
    \/ EmitOk
    \/ EndItem

SpecAlign == InitAlign /\ [][NextAlign]_vars

----------------------------------------------------------------------------
(* Stage A: _split_long_sentence                                           *)

break_chars == <<";", ":", ",", "-">>    \* "-" stands for the em dash

\* str.rfind(ch, start): the highest index >= start holding ch, or -1.
RFind(s, ch, start) ==
    LET hits == {i \in start .. Len(s) - 1 : Ch(s, i) = ch}
    IN  IF hits = {} THEN -1 ELSE CHOOSE i \in hits : \A j \in hits : j <= i

\* int(max_len * 0.70); equal to (7 * max_len) \div 10 for max_len < 90.
StartSearch(maxl) == (7 * maxl) \div 10

\* The for loop over break_chars: the cut after the first character of the
\* list that occurs in the window at or after start_search, or -1.
RECURSIVE SeparatorCut(_, _, _)
SeparatorCut(window, start_search, k) ==
    IF k > Len(break_chars) THEN -1
    ELSE LET idx == RFind(window, break_chars[k], start_search)
         IN  IF idx # -1 THEN idx + 1
             ELSE SeparatorCut(window, start_search, k + 1)

\* Faulty variant: the cut is before the separator, not after it.
CutPosBeforeSeparator(remaining, maxl) ==
    LET window == Slice(remaining, 0, maxl + 1)
        start_search == StartSearch(maxl)
        cut == SeparatorCut(window, start_search, 1)
    IN  IF cut # -1 THEN cut - 1
        ELSE LET idx == RFind(window, " ", start_search)
             IN  IF idx # -1 THEN idx ELSE maxl

\* The cut position one iteration of the while loop settles on.
CutPos(remaining, maxl) ==
    LET window == Slice(remaining, 0, maxl + 1)
        start_search == StartSearch(maxl)
        cut == SeparatorCut(window, start_search, 1)
    IN  IF cut # -1 THEN cut
        ELSE LET idx == RFind(window, " ", start_search)
             IN  IF idx # -1 THEN idx ELSE maxl

\* Faulty variant: the character at the cut is dropped.
RestAfterCutSkipping(remaining, cut) ==
    Strip(Slice(remaining, cut + 1, Len(remaining)))

\* The text after the cut: remaining[cut:].strip()
RestAfterCut(remaining, cut) == Strip(Slice(remaining, cut, Len(remaining)))

\* The while loop, then "if remaining: parts.append(remaining)".
RECURSIVE SplitLoop(_, _, _)
SplitLoop(remaining, maxl, parts) ==
    IF remaining # "" /\ Len(remaining) > maxl
    THEN LET cut == CutPos(remaining, maxl)
             head == Strip(Slice(remaining, 0, cut))
         IN  SplitLoop(RestAfterCut(remaining, cut), maxl,
                       IF head # "" THEN Append(parts, head) ELSE parts)
    ELSE IF remaining # "" THEN Append(parts, remaining) ELSE parts

_split_long_sentence(text, maxl) ==
    LET t == Strip(text)
    IN  IF t = "" THEN <<>>
        ELSE IF Len(t) <= maxl THEN <<t>>
        ELSE SplitLoop(t, maxl, <<>>)

----------------------------------------------------------------------------
(* Inputs of the Stage A model.                                            *)

MaxTotalLen == 5    \* characters in all the sentences of one input together
MaxSentences == 2   \* sentences in one input
MaxMaxLen == 3      \* largest max_len

Alphabet == {"a", " ", ","}
MinLens == {1, 3}

RECURSIVE StrsUpTo(_)
StrsUpTo(n) ==
    IF n = 0 THEN {""}
    ELSE LET shorter == StrsUpTo(n - 1)
         IN  shorter \cup {s \o c : s \in shorter, c \in Alphabet}

RECURSIVE SentenceLists(_, _)
SentenceLists(k, n) ==
    IF k = 0 THEN {<<>>}
    ELSE {<<>>} \cup
         UNION {{<<s>> \o rest : rest \in SentenceLists(k - 1, n - Len(s))} :
                s \in StrsUpTo(n)}

AlignIdle ==
    /\ words = <<>> /\ chunks = <<>> /\ min_sim = <<1, 1>>
    /\ max_extra_tokens = 0 /\ max_candidates = 0 /\ pad_seconds = 0
    /\ cursor = 0 /\ ci = 0 /\ m = None /\ out_lines = <<>> /\ accepted = <<>>
    /\ total_chunks = 0 /\ matched_chunks = 0 /\ unresolved_chunks = 0
    /\ pc = "idle"

\* The entries of "sentences": strings, or values that are not strings (the
\* signature says list[str], nothing in the function checks it).  A value
\* that is not a string takes the place of an empty sentence.
SentenceEntries(l, ns) == [i \in 1 .. Len(l) |-> IF i \in ns THEN NotAString ELSE Str(l[i])]

InitGroup ==
    /\ \E l \in SentenceLists(MaxSentences, MaxTotalLen) :
           \E ns \in SUBSET {i \in 1 .. Len(l) : l[i] = ""} :
               sentences = SentenceEntries(l, ns)
    /\ max_len \in 1 .. MaxMaxLen
    /\ min_len \in MinLens
    /\ si = 0
    /\ expanded = <<>>
    /\ chunks_out = <<>>
    /\ current = <<>>
    /\ current_len = 0
    /\ gpc = "expand"
    /\ AlignIdle /\ LaterIdle

----------------------------------------------------------------------------
(* smart_grouping                                                          *)

OrphanSlack == 50

groupInputs == <<sentences, max_len, min_len>>

\* One iteration of "for s in sentences": strip, skip if empty, else extend
\* expanded by the parts of the sentence.
ExpandSentence ==
    /\ gpc = "expand" /\ si < Len(sentences)
    /\ sentences[si + 1].isstr
    /\ expanded' = expanded \o _split_long_sentence(sentences[si + 1].text, max_len)
    /\ si' = si + 1
    /\ UNCHANGED <<groupInputs, chunks_out, current, current_len, gpc, alignVars, laterVars>>

\* "s = s.strip()" on an entry that is not a string: the attribute lookup
\* raises AttributeError, nothing catches it, and the call returns no list.
ExpandRaises ==
    /\ gpc = "expand" /\ si < Len(sentences)
    /\ ~sentences[si + 1].isstr
    /\ gpc' = "raised"
    /\ UNCHANGED <<groupInputs, si, expanded, chunks_out, current, current_len,
                   alignVars, laterVars>>

\* The first loop is over; the packing loop starts on expanded.
StartPacking ==
    /\ gpc = "expand" /\ si = Len(sentences)
    /\ si' = 0
    /\ gpc' = "pack"
    /\ UNCHANGED <<groupInputs, expanded, chunks_out, current, current_len, alignVars, laterVars>>

sent_text == expanded[si + 1]

\* "if current and (current_len + 1 + sent_len) <= max_len"
Fits(cur, cur_len, sent_len, maxl) == cur # <<>> /\ cur_len + 1 + sent_len <= maxl

PackAppend ==
    /\ gpc = "pack" /\ si < Len(expanded)
    /\ Fits(current, current_len, Len(sent_text), max_len)
    /\ current' = Append(current, sent_text)
    /\ current_len' = current_len + 1 + Len(sent_text)
    /\ si' = si + 1
    /\ UNCHANGED <<groupInputs, expanded, chunks_out, gpc, alignVars, laterVars>>

\* "if not current and sent_len <= max_len"
PackFirst ==
    /\ gpc = "pack" /\ si < Len(expanded)
    /\ ~Fits(current, current_len, Len(sent_text), max_len)
    /\ current = <<>> /\ Len(sent_text) <= max_len
    /\ current' = <<sent_text>>
    /\ current_len' = Len(sent_text)
    /\ si' = si + 1
    /\ UNCHANGED <<groupInputs, expanded, chunks_out, gpc, alignVars, laterVars>>

\* Otherwise: close the current chunk if there is one, and start a new
\* chunk with this sentence.
PackClose ==
    /\ gpc = "pack" /\ si < Len(expanded)
    /\ ~Fits(current, current_len, Len(sent_text), max_len)
    /\ ~(current = <<>> /\ Len(sent_text) <= max_len)
    /\ chunks_out' = IF current # <<>>
                     THEN Append(chunks_out, Strip(Join(current)))
                     ELSE chunks_out
    /\ current' = <<sent_text>>
    /\ current_len' = Len(sent_text)
    /\ si' = si + 1
    /\ UNCHANGED <<groupInputs, expanded, gpc, alignVars, laterVars>>

\* The tail: the orphan merge.
WithTail(chs, cur, minl, maxl) ==
    IF cur = <<>> THEN chs
    ELSE LET last == Strip(Join(cur))
         IN  IF Len(last) < minl /\ chs # <<>>
             THEN LET prev == chs[Len(chs)]
                      front == SubSeq(chs, 1, Len(chs) - 1)
                  IN  IF Len(prev) + 1 + Len(last) <= maxl + OrphanSlack
                      THEN Append(front, Strip(prev \o " " \o last))
                      ELSE Append(Append(front, prev), last)
             ELSE Append(chs, last)

\* "chunks = [c for c in (c.strip() for c in chunks) if c]"
RECURSIVE FinalCleanup(_)
FinalCleanup(chs) ==
    IF chs = <<>> THEN <<>>
    ELSE LET c == Strip(Head(chs))
         IN  (IF c # "" THEN <<c>> ELSE <<>>) \o FinalCleanup(Tail(chs))

\* The packing loop is over: tail, final cleanup, return.
FinishGrouping ==
    /\ gpc = "pack" /\ si = Len(expanded)
    /\ chunks_out' = FinalCleanup(WithTail(chunks_out, current, min_len, max_len))
    /\ gpc' = "done"
    /\ UNCHANGED <<groupInputs, si, expanded, current, current_len, alignVars, laterVars>>

NextGroup ==
    \/ ExpandSentence
    \/ ExpandRaises
    \/ StartPacking
    \/ PackAppend
    \/ PackFirst
    \/ PackClose
    \/ FinishGrouping

SpecGroup == InitGroup /\ [][NextGroup]_vars

----------------------------------------------------------------------------
(* Properties of the Sequential Aligner, checked under SpecAlign.          *)

LastRec(recs) == recs[Len(recs)]
Elems(seq) == {seq[i] : i \in 1 .. Len(seq)}

\* The chunk the loop is at (pc = "matched": searched, record not yet out).
TargetTokens == _tokenize(Chunk)

\* Every window the search may examine for the chunk at hand, as a set:
\* a candidate start position and a length within +/- max_extra_tokens of
\* the target's that fits in the word stream.
WindowsAt(cur) ==
    IF TargetTokens = <<>> THEN {}
    ELSE LET n == Len(TargetTokens)
             starts == Elems(CandidatePositions(words, TargetTokens, cur,
                                                max_candidates))
         IN  {w \in starts \X (Max(1, n - max_extra_tokens) .. n + max_extra_tokens) :
                 w[1] + w[2] <= Len(words)}
WindowSim(w) ==
    _similarity(WindowJoin(words, w[1], w[1] + w[2]), Join(TargetTokens))
WindowTokens(w) == [k \in 1 .. w[2] |-> words[w[1] + k].token]

\* A step that emits the record of the chunk at hand.
Emits == pc = "matched" /\ pc' = "loop" /\ Len(out_lines') = Len(out_lines) + 1

\* C1: every record with status "ok" has non-null start and end with
\* 0 <= start < end and a sim >= min_sim, for the values written in the
\* record.
C1_OkRecordWellFormed ==
    \A i \in 1 .. Len(out_lines) :
        out_lines[i].status = "ok" =>
            /\ out_lines[i].start # None
            /\ out_lines[i].end # None
            /\ out_lines[i].sim # None
            /\ 0 <= out_lines[i].start[1]
            /\ out_lines[i].start[1] < out_lines[i].end[1]
            /\ RatGE(out_lines[i].sim[1], min_sim)

\* C2: the cursor never decreases, and every accepted span starts at or
\* after the exclusive end of every span accepted before it.
SpansInOrder(spans) ==
    \A i, j \in 1 .. Len(spans) : i < j => spans[i][2] <= spans[j][1]
C2_CursorMonotone == [][cursor' >= cursor /\ SpansInOrder(accepted')]_vars
C2_Witness ==
    /\ Len(accepted) >= 2
    /\ cursor = accepted[2][2]
    /\ accepted[1][2] < accepted[2][1]

\* C3: emitting an "unmatched" or "bad_times" record leaves the cursor
\* unchanged, so the next chunk is searched from the same word position.
C3_FailureKeepsCursor ==
    [][(Emits /\ LastRec(out_lines').status \in {"unmatched", "bad_times"})
          => cursor' = cursor]_vars
C3_Witness ==
    /\ Len(out_lines) = 2
    /\ out_lines[1].status = "ok"
    /\ out_lines[2].status = "bad_times"
    /\ cursor > 0
    /\ cursor = accepted[1][2]

\* C4: one record per non-empty string chunk, in chunk order, whatever the
\* outcome; the loop ends only when every entry has been consumed.
HasText(e) == e.isstr /\ \E i \in 0 .. Len(e.text) - 1 : Ch(e.text, i) # " "
RECURSIVE TextsOf(_, _)
TextsOf(entries, n) ==
    IF n = 0 THEN <<>>
    ELSE TextsOf(entries, n - 1) \o
         (IF HasText(entries[n]) THEN <<Strip(entries[n].text)>> ELSE <<>>)
C4_OneRecordPerChunk ==
    /\ [i \in 1 .. Len(out_lines) |-> out_lines[i].text] = TextsOf(chunks, ci)
    /\ pc = "done" => ci = Len(chunks)
C4_Witness ==
    /\ pc = "done"
    /\ Len(chunks) = 2
    /\ Len(out_lines) = 2
    /\ out_lines[1].status \in {"unmatched", "bad_times"}
    /\ out_lines[2].status = "ok"

\* C5: when no candidate window reaches min_sim (also when there is no
\* window at all), the record is "unmatched" with null start and end, and
\* its sim is the best similarity over the windows, or null without one.
IsBestSim(x, ws) ==
    /\ \E w \in ws : RatEQ(WindowSim(w), x)
    /\ \A w \in ws : RatGE(x, WindowSim(w))
C5_UnmatchedRecord ==
    [][(Emits /\ \A w \in WindowsAt(cursor) : RatLT(WindowSim(w), min_sim)) =>
          LET r == LastRec(out_lines')
          IN  /\ r.status = "unmatched"
              /\ r.start = None /\ r.end = None
              /\ IF WindowsAt(cursor) = {} THEN r.sim = None
                 ELSE r.sim # None /\ IsBestSim(r.sim[1], WindowsAt(cursor))]_vars
C5_Witness ==
    /\ Len(out_lines) = 2
    /\ out_lines[1].status = "unmatched" /\ out_lines[1].sim = None
    /\ out_lines[2].status = "unmatched" /\ out_lines[2].sim # None
    /\ out_lines[2].sim[1][1] > 0


\* The windows whose tokens are exactly the chunk's tokens, and the
\* earliest of them.
ExactAt(cur) == {w \in WindowsAt(cur) : WindowTokens(w) = TargetTokens}
EarliestExact(cur) ==
    CHOOSE w \in ExactAt(cur) : \A v \in ExactAt(cur) : w[1] <= v[1]
One == <<1, 1>>
\* x is t rounded to the millisecond.
IsRound3(x, t) == x % 1000 = 0 /\ 2 * (x - t) <= 1000 /\ 2 * (t - x) <= 1000

\* C6, as stated: when the chunk's tokens occur exactly among the candidate
\* windows, the record is "ok" with sim 1.0, start = max(0, first matched
\* word's start - pad) and end = last matched word's end + pad.
C6_ExactMatchAsStated ==
    [][(Emits /\ ExactAt(cursor) # {}) =>
          LET w == EarliestExact(cursor)
              r == LastRec(out_lines')
          IN  /\ r.status = "ok"
              /\ r.sim # None /\ RatEQ(r.sim[1], One)
              /\ r.start = Some(Max(0, words[w[1] + 1].start - pad_seconds))
              /\ r.end = Some(words[w[1] + w[2]].end + pad_seconds)]_vars

\* C6, amended: with min_sim <= 1.0, the record is that of the earliest
\* exact occurrence with sim 1.0; it is "ok" with start and end the padded
\* times clamped to [0, 1e9] and rounded to the millisecond when the
\* clamped end exceeds the clamped start, and "bad_times" with null times
\* otherwise.
C6_ExactMatchRecord ==
    [][(Emits /\ ExactAt(cursor) # {} /\ RatGE(One, min_sim)) =>
          LET w == EarliestExact(cursor)
              r == LastRec(out_lines')
              st == Max(0, Min(ClampHiUs, words[w[1] + 1].start - pad_seconds))
              en == Max(0, Min(ClampHiUs, words[w[1] + w[2]].end + pad_seconds))
          IN  /\ m # None /\ m[1].start_i = w[1] /\ m[1].end_i = w[1] + w[2]
              /\ r.sim # None /\ RatEQ(r.sim[1], One)
              /\ IF en <= st
                 THEN r.status = "bad_times" /\ r.start = None /\ r.end = None
                 ELSE /\ r.status = "ok"
                      /\ r.start # None /\ IsRound3(r.start[1], st)
                      /\ r.end # None /\ IsRound3(r.end[1], en)]_vars
\* The example of the specification: two words at 0.0-0.4 s and 0.5-0.9 s,
\* the chunk made of both, pad 0.10 s: start 0.0 (clamped), end 1.0.
C6_Witness ==
    /\ pad_seconds = 100000
    /\ Len(words) = 2 /\ words[1].start = 0 /\ words[2].end = 900000
    /\ Len(out_lines) >= 1
    /\ out_lines[1] = Rec(Some(0), Some(1000000), "Ab|a", Some(<<10000, 10000>>), "ok")

\* C7: the search returns the best-scoring window over all candidate
\* positions and lengths; among windows of equal best similarity, the one
\* with the earliest start and, at that start, the shortest length.
C7_BestWindow ==
    pc = "matched" =>
        LET ws == WindowsAt(cursor)
        IN  IF ws = {} THEN m = None
            ELSE /\ m # None
                 /\ LET b == <<m[1].start_i, m[1].end_i - m[1].start_i>>
                        best == m[1].sim
                    IN  /\ b \in ws
                        /\ RatEQ(best, WindowSim(b))
                        /\ \A w \in ws :
                               LET x == WindowSim(w)
                               IN  IF RatEQ(x, best)
                                   THEN b[1] < w[1] \/ (b[1] = w[1] /\ b[2] <= w[2])
                                   ELSE RatLT(x, best)
C7_Witness ==
    /\ pc = "matched" /\ m # None
    /\ \E w \in WindowsAt(cursor) :
           w[1] = m[1].start_i /\ w[2] > m[1].end_i - m[1].start_i
           /\ RatEQ(WindowSim(w), m[1].sim)
    /\ \E w \in WindowsAt(cursor) :
           w[1] > m[1].start_i /\ RatEQ(WindowSim(w), m[1].sim)


----------------------------------------------------------------------------
(* Properties of the Chunker, checked under SpecGroup.                     *)

\* C8: every part of a split sentence is at most max_len long.
C8_PartsWithinMaxLen ==
    \A i \in 1 .. Len(expanded) : Len(expanded[i]) <= max_len

\* C9: every non-final chunk is at most max_len long, and the final chunk
\* at most max_len + 50.
C9_ChunkLengths ==
    gpc = "done" =>
        \A i \in 1 .. Len(chunks_out) :
            IF i < Len(chunks_out) THEN Len(chunks_out[i]) <= max_len
            ELSE Len(chunks_out[i]) <= max_len + OrphanSlack

\* The non-whitespace characters of a list of strings, in order.
RECURSIVE NonSpace(_)
NonSpace(str) ==
    IF str = "" THEN ""
    ELSE (IF Ch(str, 0) = " " THEN "" ELSE Ch(str, 0)) \o
         NonSpace(SubSeq(str, 2, Len(str)))
RECURSIVE NonSpaceAll(_)
NonSpaceAll(strs) ==
    IF strs = <<>> THEN "" ELSE NonSpace(Head(strs)) \o NonSpaceAll(Tail(strs))

\* C10: the chunks, concatenated in order, hold exactly the non-whitespace
\* characters of the input sentences, in order.
C10_CharactersPreserved ==
    gpc = "done" =>
        NonSpaceAll(chunks_out) =
            NonSpaceAll([i \in 1 .. Len(sentences) |-> sentences[i].text])
\* A run in which a sentence was split, parts were packed together and the
\* orphan merge joined the last chunk to the one before it.
C10_Witness ==
    /\ gpc = "done"
    /\ Len(expanded) > Len(sentences)
    /\ Len(sentences) = 2
    /\ Len(chunks_out) >= 2
    /\ Len(chunks_out) < Len(expanded)
    /\ Len(chunks_out[Len(chunks_out)]) > max_len

----------------------------------------------------------------------------
(* dataset_quality_report.py: the fast quality gate.                       *)
(* Texts are ASCII: "k" and "K" stand for a Cyrillic letter and its        *)
(* capital, "a" and "A" are Latin letters, "^" stands for a control        *)
(* character of NON_PRINTABLE_RE.  Durations are in milliseconds.          *)

\* Printable ASCII characters in code point order (the double quote, the
\* backslash and the backquote are left out: no text of the model has them).
Ascii == " !#$%&'()*+,-./0123456789:;<=>?@ABCDEFGHIJKLMNOPQRSTUVWXYZ[]^_abcdefghijklmnopqrstuvwxyz{|}~"
\* The rank of a character in that order: the order of Python's ord(c).
Ord(c) == CHOOSE i \in 1 .. Len(Ascii) : SubSeq(Ascii, i, i) = c

\* Python's a < b on str: by code point, a proper prefix first.
RECURSIVE StrLess(_, _)
StrLess(a, b) ==
    IF b = "" THEN FALSE
    ELSE IF a = "" THEN TRUE
    ELSE IF Ch(a, 0) = Ch(b, 0)
         THEN StrLess(Slice(a, 1, Len(a)), Slice(b, 1, Len(b)))
         ELSE Ord(Ch(a, 0)) < Ord(Ch(b, 0))

IsCyrillic(c) == c \in {"k", "K"}            \* CYRILLIC_RE
IsLatin(c) == c \in {"a", "A"}               \* LATIN_RE
IsControl(c) == c = "^"                      \* NON_PRINTABLE_RE
IsDigit(c) == c \in {"0", "1"}

\* str.lower() on one character.
lower(c) == IF c = "K" THEN "k" ELSE IF c = "A" THEN "a" ELSE c

\* The characters normalize_text keeps: [a-z], Cyrillic, [0-9], whitespace.
IsKept(c) == c \in {"a", "k", " "} \/ IsDigit(c)

\* normalize_text: lower case, every other character to a space, runs of
\* whitespace to one space, stripped.
RECURSIVE CollapseSpaces(_, _)
CollapseSpaces(s, prevSpace) ==
    IF s = "" THEN ""
    ELSE LET c == IF IsKept(lower(Ch(s, 0))) THEN lower(Ch(s, 0)) ELSE " "
             rest == Slice(s, 1, Len(s))
         IN  IF c = " "
             THEN (IF prevSpace THEN "" ELSE " ") \o CollapseSpaces(rest, TRUE)
             ELSE c \o CollapseSpaces(rest, FALSE)
normalize_text(text) == Strip(CollapseSpaces(text, FALSE))

\* str.split() of a normalized text.
RECURSIVE SplitWords(_, _)
SplitWords(s, run) ==
    IF s = "" THEN (IF run = "" THEN <<>> ELSE <<run>>)
    ELSE IF Ch(s, 0) = " "
         THEN (IF run = "" THEN <<>> ELSE <<run>>) \o SplitWords(Slice(s, 1, Len(s)), "")
         ELSE SplitWords(Slice(s, 1, Len(s)), run \o Ch(s, 0))

CountChars(text, Is(_)) == Cardinality({i \in 0 .. Len(text) - 1 : Is(Ch(text, i))})

\* _token_repetition_score, as the fraction most / len(tokens).
RepetitionTokens == 6
_token_repetition_score(text) ==
    LET tokens == SplitWords(normalize_text(text), "")
        count(t) == Cardinality({i \in 1 .. Len(tokens) : tokens[i] = t})
    IN  IF Len(tokens) < RepetitionTokens THEN <<0, 1>>
        ELSE <<MaxOf({count(tokens[i]) : i \in 1 .. Len(tokens)}),
               Max(1, Len(tokens))>>

\* Row(row_num, wav, text)
Row(row_num, wav, text) == [row_num |-> row_num, wav |-> wav, text |-> text]

\* get_audio_info on the files of wavs/: a.wav lasts 1 s, b.wav 0.1 s,
\* l.wav 16 s, x.wav is no readable audio, any other name does not exist.
AudioInfo(duration_s, error) == [duration_s |-> duration_s, error |-> error]
get_audio_info(wav) ==
    CASE wav = "a.wav" -> AudioInfo(Some(1000), None)
      [] wav = "b.wav" -> AudioInfo(Some(100), None)
      [] wav = "l.wav" -> AudioInfo(Some(16000), None)
      [] wav = "x.wav" -> AudioInfo(None, Some("invalid_audio"))
      [] OTHER -> AudioInfo(None, Some("missing_wav"))

\* The defaults of the thresholds that the model does not vary.
min_cyrillic_ratio == <<6, 10>>
latin_suspect_ratio == <<1, 10>>
repetition_suspect == <<1, 2>>
min_duration == 200
max_duration == 15500

\* One suspect; "details" (a formatted number) is not modelled.
Suspect(r, issue) == [row |-> r.row_num, wav |-> r.wav, issue |-> issue, text |-> r.text]

If(cond, issue) == IF cond THEN <<issue>> ELSE <<>>

\* The textual heuristics of one row, in the order the loop applies them.
TextIssues(r, args) ==
    LET cyr == CountChars(r.text, IsCyrillic)
        lat == CountChars(r.text, IsLatin)
        letters == cyr + lat
    IN  If(\E i \in 0 .. Len(r.text) - 1 : IsControl(Ch(r.text, i)), "non_printable")
        \o If(Len(r.text) < args.min_text_len, "too_short_text")
        \o If(Len(r.text) > args.max_text_len, "too_long_text")
        \o If(letters # 0 /\ RatLT(<<cyr, Max(1, letters)>>, min_cyrillic_ratio),
              "low_cyrillic_ratio")
        \o If(letters # 0 /\ cyr > 0 /\ lat > 0
              /\ RatGE(<<lat, Max(1, letters)>>, latin_suspect_ratio), "code_switch")
        \o If(RatGE(_token_repetition_score(r.text), repetition_suspect),
              "high_token_repetition")

\* The duration heuristics of a readable file.
AudioIssues(ainfo) ==
    IF ainfo.duration_s = None THEN <<>>
    ELSE If(ainfo.duration_s[1] < min_duration, "too_short_audio")
         \o If(ainfo.duration_s[1] > max_duration, "too_long_audio")

Suspects(r, issues) == [k \in 1 .. Len(issues) |-> Suspect(r, issues[k])]

\* The inputs: up to MaxRows rows of metadata_2col.csv, as read_metadata
\* returns them (stripped fields, row numbers from 1).
MaxRows == 3
RowFields ==
    {<<"a.wav", "Kak">>, <<"b.wav", "kak!">>, <<"m.wav", "kak">>,
     <<"", "Kak">>, <<"", "">>, <<"a.wav", "!">>, <<"x.wav", "?">>,
     <<"l.wav", "aa k">>, <<"a.wav", "k k k k k k">>, <<"a.wav", "k^k">>}
RowLists ==
    UNION {{[i \in 1 .. n |-> Row(i, f[i][1], f[i][2])] : f \in [1 .. n -> RowFields]} :
           n \in 0 .. MaxRows}
QArgs ==
    {[suspect_top |-> 200, min_text_len |-> 3, max_text_len |-> 400],
     [suspect_top |-> 1, min_text_len |-> 3, max_text_len |-> 5]}

InitQuality ==
    /\ rows \in RowLists
    /\ qargs \in QArgs
    /\ qi = 0
    /\ normalized_text_to_first = <<>>
    /\ duplicate_rows = <<>>
    /\ durations = <<>>
    /\ text_lens = <<>>
    /\ suspects = <<>>
    /\ suspects_sorted = <<>>
    /\ qpc = "rows"
    /\ AlignIdle /\ GroupIdle /\ ValidIdle /\ ShardIdle /\ ToolIdle

\* dict lookup and insertion; the dict is a sequence of <<key, value>>
\* pairs in insertion order.
HasKey(d, key) == \E k \in 1 .. Len(d) : d[k][1] = key

\* Faulty variant: the index is keyed by the raw text.
DuplicateKeyRaw(text) == text
\* The key of the duplicate index.
DuplicateKey(text) == normalize_text(text)

\* One iteration of "for r in rows", the whole body.
ProcessRow ==
    /\ qpc = "rows" /\ qi < Len(rows)
    /\ LET r == rows[qi + 1]
           norm == DuplicateKey(r.text)
           ainfo == get_audio_info(r.wav)
       IN  IF r.wav = "" \/ r.text = ""
           THEN /\ suspects' = Append(suspects, Suspect(r, "empty_wav_or_text"))
                /\ UNCHANGED <<normalized_text_to_first, duplicate_rows,
                               durations, text_lens>>
           ELSE /\ normalized_text_to_first' =
                       IF norm # "" /\ ~HasKey(normalized_text_to_first, norm)
                       THEN Append(normalized_text_to_first, <<norm, r.row_num>>)
                       ELSE normalized_text_to_first
                /\ duplicate_rows' =
                       IF norm # "" /\ HasKey(normalized_text_to_first, norm)
                       THEN Append(duplicate_rows, r.row_num)
                       ELSE duplicate_rows
                /\ IF ainfo.error # None
                   THEN /\ suspects' = suspects \o Suspects(r, TextIssues(r, qargs))
                                       \o <<Suspect(r, ainfo.error[1])>>
                        /\ UNCHANGED <<durations, text_lens>>
                   ELSE /\ suspects' = suspects \o Suspects(r, TextIssues(r, qargs))
                                       \o Suspects(r, AudioIssues(ainfo))
                        /\ durations' = durations \o ainfo.duration_s
                        /\ text_lens' = Append(text_lens, Len(r.text))
    /\ qi' = qi + 1
    /\ UNCHANGED <<rows, qargs, suspects_sorted, qpc, alignVars, groupVars, validVars, shardVars, toolVars>>

\* "Mark duplicates (after first pass)"
MarkDuplicates ==
    /\ qpc = "rows" /\ qi = Len(rows)
    /\ suspects' = suspects \o
           [k \in 1 .. Len(duplicate_rows) |->
               Suspect(rows[duplicate_rows[k]], "duplicate_text")]
    /\ qpc' = "write"
    /\ UNCHANGED <<rows, qargs, qi, normalized_text_to_first, duplicate_rows,
                   durations, text_lens, suspects_sorted, alignVars, groupVars, validVars, shardVars, toolVars>>

\* sorted(suspects, key=(issue, row)): a stable insertion sort.
SuspectLess(x, y) == IF x.issue = y.issue THEN x.row < y.row ELSE StrLess(x.issue, y.issue)
RECURSIVE InsertSuspect(_, _)
InsertSuspect(x, seq) ==
    IF seq = <<>> THEN <<x>>
    ELSE IF SuspectLess(x, Head(seq)) THEN <<x>> \o seq
    ELSE <<Head(seq)>> \o InsertSuspect(x, Tail(seq))
RECURSIVE SortSuspects(_)
SortSuspects(seq) ==
    IF seq = <<>> THEN <<>>
    ELSE InsertSuspect(seq[Len(seq)], SortSuspects(SubSeq(seq, 1, Len(seq) - 1)))

\* The quick ASR sample is off (--asr-sample 0, the default); suspects.tsv
\* holds the first suspect_top suspects of the sorted list.
WriteSuspects ==
    /\ qpc = "write"
    /\ suspects_sorted' = SubSeq(SortSuspects(suspects), 1,
                                 Min(Len(suspects), Max(0, qargs.suspect_top)))
    /\ qpc' = "done"
    /\ UNCHANGED <<rows, qargs, qi, normalized_text_to_first, duplicate_rows,
                   durations, text_lens, suspects, alignVars, groupVars, validVars, shardVars, toolVars>>

NextQuality ==
    \/ ProcessRow
    \/ MarkDuplicates
    \/ WriteSuspects

SpecQuality == InitQuality /\ [][NextQuality]_vars

----------------------------------------------------------------------------
(* validate_dataset_full.py: the full validation with its verdict.         *)
(* soundfile is installed.  The files that wavs/ may hold: a.wav and c.wav *)
(* are mono 16-bit PCM at the configured rate and last 1 s; b.wav is       *)
(* stereo and lasts 0.1 s; x.wav is no readable audio.                     *)

\* A row of read_metadata: (row_num, wav, text, row_issue).
MetaRow(row_num, wav, text, row_issue) ==
    [row_num |-> row_num, wav |-> wav, text |-> text, row_issue |-> row_issue]
\* An entry of the issue lists: (row_num, wav_name, text, issue).
Issue(r, issue) == [row |-> r.row_num, wav |-> r.wav, text |-> r.text, issue |-> issue]
Issues(r, issues) == [k \in 1 .. Len(issues) |-> Issue(r, issues[k])]

\* "wav_path.exists()" for wav_path = wavs_dir / wav_name: the empty name
\* gives the directory itself.
WavPathExists(d, wav) == IF wav = "" THEN d.wavs_dir ELSE wav \in d.wav_files

\* sf.info of a file of wavs/; None when soundfile raises.
ConfiguredRate == 22050
SoundInfo(wav) ==
    CASE wav \in {"a.wav", "c.wav"} ->
             Some([channels |-> 1, subtype |-> "PCM_16", samplerate |-> 22050,
                   frames |-> 22050])
      [] wav = "b.wav" ->
             Some([channels |-> 2, subtype |-> "PCM_16", samplerate |-> 16000,
                   frames |-> 1600])
      [] OTHER -> None

\* check_audio_info: an error, or the list of issues of the file
\* ("duration <= 0.2" is frames * 10 <= 2 * samplerate).
check_audio_info(wav, expected_sr) ==
    IF SoundInfo(wav) = None THEN [error |-> Some("invalid_audio"), issues |-> <<>>]
    ELSE LET info == SoundInfo(wav)[1]
         IN  [error |-> None,
              issues |-> If(info.channels # 1, "not_mono")
                         \o If(info.subtype # "PCM_16", "not_pcm16")
                         \o If(expected_sr # None /\ <<info.samplerate>> # expected_sr,
                               "sample_rate_mismatch")
                         \o If(info.frames * 10 <= 2 * info.samplerate, "too_short")]

\* compute_similarity: SequenceMatcher's ratio, 1.0 for two empty strings.
compute_similarity(a, b) == _similarity(a, b)
similarity_threshold == <<8, 10>>

\* The text checks of one row, in the order the loop applies them.
ValidatorTextIssues(r, args) ==
    LET cyr == CountChars(r.text, IsCyrillic)
        letters == cyr + CountChars(r.text, IsLatin)
    IN  If(\E i \in 0 .. Len(r.text) - 1 : IsControl(Ch(r.text, i)), "non_printable")
        \o If(Len(r.text) < args.min_text_len, "too_short_text")
        \o If(Len(r.text) > args.max_text_len, "too_long_text")
        \o If(RatLT(IF letters # 0 THEN <<cyr, letters>> ELSE <<0, 1>>,
                    min_cyrillic_ratio), "low_cyrillic_ratio")

\* The audio checks of one row.
ValidatorAudioIssues(r, expected_sr) ==
    LET info == check_audio_info(r.wav, expected_sr)
    IN  IF info.error # None THEN info.error ELSE info.issues

\* What whisper_transcribe does for a row: it returns a text or raises.
Heard(text) == [raised |-> FALSE, text |-> text]
TranscribeRaises == [raised |-> TRUE, text |-> ""]
Transcriptions == {Heard("kak"), Heard(""), TranscribeRaises}

\* The whisper check of one row, given what the transcription did.
ValidatorWhisperIssues(r, hyp) ==
    IF hyp.raised THEN <<"whisper_error">>
    ELSE If(RatLT(compute_similarity(normalize_text(r.text), normalize_text(hyp.text)),
                  similarity_threshold), "low_similarity")

\* The inputs: the dataset directory, the arguments, the metadata rows.
MaxMetaRows == 2
Disk(config, metadata, wavs_dir, files) ==
    [config |-> config, metadata |-> metadata, wavs_dir |-> wavs_dir, wav_files |-> files]
Disks ==
    {Disk(TRUE, TRUE, TRUE, {"a.wav"}),
     Disk(TRUE, TRUE, TRUE, {"a.wav", "c.wav"}),
     Disk(TRUE, TRUE, TRUE, {"a.wav", "b.wav", "x.wav"}),
     Disk(FALSE, TRUE, TRUE, {"a.wav"}),
     Disk(TRUE, TRUE, FALSE, {}),
     Disk(TRUE, FALSE, TRUE, {})}
MetaFields ==
    {<<"a.wav", "kak", "">>, <<"c.wav", "Kak kak", "">>, <<"a.wav", "k", "">>,
     <<"m.wav", "k", "">>, <<"", "", "empty_row">>, <<"a.wav", "", "missing_text">>,
     <<"b.wav", "aa", "">>, <<"x.wav", "kak", "">>, <<"", "kak", "">>}
MetaRowLists ==
    UNION {{[i \in 1 .. n |-> MetaRow(i, f[i][1], f[i][2], f[i][3])] :
               f \in [1 .. n -> MetaFields]} :
           n \in 0 .. MaxMetaRows}
VArgs ==
    {[whisper |-> w, require_whisper |-> q, min_text_len |-> 3, max_text_len |-> 400] :
        w, q \in BOOLEAN}
    \cup {[whisper |-> FALSE, require_whisper |-> FALSE, min_text_len |-> 3,
           max_text_len |-> 5]}

InitValidate ==
    /\ disk \in Disks
    /\ vargs \in VArgs
    /\ metadata_rows \in (IF disk.metadata THEN MetaRowLists ELSE {<<>>})
    /\ vi = 0
    /\ errors = <<>>
    /\ seen = {}
    /\ missing_wav = <<>> /\ duplicate_wav = <<>> /\ text_issues = <<>>
    /\ audio_issues = <<>> /\ whisper_issues = <<>> /\ similarity_values = <<>>
    /\ extra_wav = <<>> /\ tsv = <<>>
    /\ verdict = "" /\ exit_code = None
    /\ vpc = "start"
    /\ AlignIdle /\ GroupIdle /\ QualIdle /\ ShardIdle /\ ToolIdle

validInputs == <<disk, vargs, metadata_rows>>

\* expected_sr: config["audio"]["sample_rate"], None without a config.
expected_sr == IF disk.config THEN Some(ConfiguredRate) ELSE None

\* The checks on the dataset directory; the whisper model, if asked for,
\* is loaded.
StartValidation ==
    /\ vpc = "start"
    /\ errors' = If(~disk.config, "missing_config")
                 \o If(~disk.metadata, "missing_metadata")
                 \o If(~disk.wavs_dir, "missing_wavs_dir")
    /\ vpc' = "rows"
    /\ UNCHANGED <<validInputs, vi, seen, missing_wav, duplicate_wav, text_issues,
                   audio_issues, whisper_issues, similarity_values, extra_wav,
                   tsv, verdict, exit_code, alignVars, groupVars, qualVars, shardVars, toolVars>>

\* _load_whisper_model raises (no backend installed, no such device):
\* nothing catches it, the interpreter exits with code 1 and no report.
WhisperLoadRaises ==
    /\ vpc = "start" /\ vargs.whisper
    /\ vpc' = "raised"
    /\ exit_code' = Some(1)
    /\ UNCHANGED <<validInputs, vi, errors, seen, missing_wav, duplicate_wav,
                   text_issues, audio_issues, whisper_issues, similarity_values,
                   extra_wav, tsv, verdict, alignVars, groupVars, qualVars, shardVars, toolVars>>

\* "if not wav_path.exists()"
Missing(d, wav) == ~WavPathExists(d, wav)

\* One iteration of the loop over metadata_rows, the whole body.
ValidateRow ==
    /\ vpc = "rows" /\ vi < Len(metadata_rows)
    /\ LET r == metadata_rows[vi + 1]
           checked == r.row_issue = "" /\ ~Missing(disk, r.wav)
       IN  /\ text_issues' =
                  IF r.row_issue # "" THEN Append(text_issues, Issue(r, r.row_issue))
                  ELSE IF checked
                       THEN text_issues \o Issues(r, ValidatorTextIssues(r, vargs))
                       ELSE text_issues
           /\ duplicate_wav' =
                  IF r.row_issue = "" /\ r.wav \in seen
                  THEN Append(duplicate_wav, Issue(r, "duplicate_wav"))
                  ELSE duplicate_wav
           /\ seen' = IF r.row_issue = "" THEN seen \cup {r.wav} ELSE seen
           /\ missing_wav' =
                  IF r.row_issue = "" /\ Missing(disk, r.wav)
                  THEN Append(missing_wav, Issue(r, "missing_wav"))
                  ELSE missing_wav
           /\ audio_issues' =
                  IF checked
                  THEN audio_issues \o Issues(r, ValidatorAudioIssues(r, expected_sr))
                  ELSE audio_issues
           /\ \E hyp \in (IF checked /\ vargs.whisper THEN Transcriptions
                                                     ELSE {Heard("")}) :
                  /\ whisper_issues' =
                         IF checked /\ vargs.whisper
                         THEN whisper_issues \o Issues(r, ValidatorWhisperIssues(r, hyp))
                         ELSE whisper_issues
                  /\ similarity_values' =
                         IF checked /\ vargs.whisper /\ ~hyp.raised
                         THEN Append(similarity_values,
                                     compute_similarity(normalize_text(r.text),
                                                        normalize_text(hyp.text)))
                         ELSE similarity_values
    /\ vi' = vi + 1
    /\ UNCHANGED <<validInputs, errors, extra_wav, tsv, verdict, exit_code, vpc,
                   alignVars, groupVars, qualVars, shardVars, toolVars>>

\* sorted(names): a stable insertion sort of strings.
RECURSIVE InsertStr(_, _)
InsertStr(x, seq) ==
    IF seq = <<>> THEN <<x>>
    ELSE IF StrLess(x, Head(seq)) THEN <<x>> \o seq
    ELSE <<Head(seq)>> \o InsertStr(x, Tail(seq))
RECURSIVE SortedSet(_)
SortedSet(S) ==
    IF S = {} THEN <<>>
    ELSE LET x == CHOOSE y \in S : TRUE IN InsertStr(x, SortedSet(S \ {x}))

\* Faulty variant: the verdict looks at errors and missing files only.
FailedOnMissingOnly(errs, missing, dups, extra, texts, audios, whispers, args) ==
    errs # <<>> \/ missing # <<>>
\* Faulty variant: a round-trip issue fails the corpus even when the
\* round-trip check is not mandatory.
FailedOnAnyWhisperIssue(errs, missing, dups, extra, texts, audios, whispers, args) ==
    \/ errs # <<>> \/ missing # <<>> \/ dups # <<>> \/ extra # <<>>
    \/ texts # <<>> \/ audios # <<>> \/ whispers # <<>>
    \/ (args.require_whisper /\ ~args.whisper)
\* "failed = errors or missing_count or duplicate_count or extra_count or
\*  text_issue_count or audio_issue_count or (args.require_whisper and
\*  (whisper_issue_count or not whisper_ran))"
Failed(errs, missing, dups, extra, texts, audios, whispers, args) ==
    \/ errs # <<>>
    \/ missing # <<>>
    \/ dups # <<>>
    \/ extra # <<>>
    \/ texts # <<>>
    \/ audios # <<>>
    \/ (args.require_whisper /\ (whispers # <<>> \/ ~args.whisper))

\* str(n) for an integer n >= 0.
RECURSIVE str(_)
str(n) ==
    IF n < 10 THEN SubSeq("0123456789", n + 1, n + 1)
    ELSE str(n \div 10) \o SubSeq("0123456789", (n % 10) + 1, (n % 10) + 1)

\* A line of the TSV: str(row), wav, text, issue.
TsvLine(e) == [row |-> str(e.row), wav |-> e.wav, text |-> e.text, issue |-> e.issue]
TsvLines(list) == [k \in 1 .. Len(list) |-> TsvLine(list[k])]

\* After the loop: extra files, the whisper_not_run error, the verdict, the
\* TSV and the exit code.
FinishValidation ==
    /\ vpc = "rows" /\ vi = Len(metadata_rows)
    /\ LET extra == SortedSet((IF disk.wavs_dir THEN disk.wav_files ELSE {}) \ seen)
           errs == errors \o If(vargs.require_whisper /\ ~vargs.whisper, "whisper_not_run")
           failed == Failed(errs, missing_wav, duplicate_wav, extra, text_issues,
                            audio_issues, whisper_issues, vargs)
       IN  /\ extra_wav' = extra
           /\ errors' = errs
           /\ verdict' = IF failed THEN "FAIL" ELSE "PASS"
           /\ exit_code' = IF failed THEN Some(1) ELSE Some(0)
           /\ tsv' = TsvLines(missing_wav \o duplicate_wav \o text_issues
                              \o audio_issues \o whisper_issues)
                     \o [k \in 1 .. Len(extra) |->
                            [row |-> "-", wav |-> extra[k], text |-> "",
                             issue |-> "extra_wav"]]
    /\ vpc' = "done"
    /\ UNCHANGED <<validInputs, vi, seen, missing_wav, duplicate_wav, text_issues,
                   audio_issues, whisper_issues, similarity_values,
                   alignVars, groupVars, qualVars, shardVars, toolVars>>

NextValidate ==
    \/ StartValidation
    \/ WhisperLoadRaises
    \/ ValidateRow
    \/ FinishValidation

SpecValidate == InitValidate /\ [][NextValidate]_vars

----------------------------------------------------------------------------
(***************************************************************************)
(* validate_dataset_whisper_sharded.py: the orchestrator of the sharded    *)
(* validation.  A worker is a process the operating system runs on its own *)
(* from the moment of Popen: it exits at any moment, with any exit code.   *)
(***************************************************************************)

\* Faulty variant: contiguous blocks of ceil(N / n) rows.
ContiguousBlocks(items, n) ==
    LET size == (Len(items) + n - 1) \div n
    IN  [k \in 1 .. n |->
            SubSeq(items, Min((k - 1) * size, Len(items)) + 1, Min(k * size, Len(items)))]
\* _round_robin(lines, n) and _chunk_round_robin(items, n): the loop that
\* appends item i to shards[i % n].
RECURSIVE RoundRobinLoop(_, _, _, _)
RoundRobinLoop(items, n, i, shardsSoFar) ==
    IF i >= Len(items) THEN shardsSoFar
    ELSE RoundRobinLoop(items, n, i + 1,
             [shardsSoFar EXCEPT ![(i % n) + 1] = Append(@, items[i + 1])])
_round_robin(items, n) == RoundRobinLoop(items, n, 0, [k \in 1 .. n |-> <<>>])
_chunk_round_robin(items, n) == _round_robin(items, n)

\* line.split("|", 1)[0]
RECURSIVE FirstField(_)
FirstField(line) ==
    IF line = "" \/ Ch(line, 0) = "|" THEN ""
    ELSE Ch(line, 0) \o FirstField(Slice(line, 1, Len(line)))

\* The files of the dataset's wavs/ directory.
SourceWavs == {"a.wav", "c.wav"}
\* Faulty variant: only the first line of the shard is looked up.
MakeShardChecksFirst(metadata_lines) ==
    metadata_lines # <<>> /\ FirstField(metadata_lines[1]) \notin SourceWavs
\* _make_shard_dataset raises FileNotFoundError: a line names a file that
\* wavs/ does not hold, or (FileExistsError of symlink_to) a file that an
\* earlier line of the shard names.
MakeShardRaises(metadata_lines) ==
    \E k \in 1 .. Len(metadata_lines) :
        \/ FirstField(metadata_lines[k]) \notin SourceWavs
        \/ \E j \in 1 .. k - 1 : FirstField(metadata_lines[j]) = FirstField(metadata_lines[k])

\* A Popen object: the shard of its command line, the device of its
\* environment, its return code (None while it runs) and, for a segmenting
\* worker, the metadata file it wrote and its rank among the workers that
\* ended.
Proc(shard, gpu) ==
    [shard |-> shard, gpu |-> gpu, returncode |-> None, metadata |-> None,
     exit_rank |-> None]
\* Faulty variant: every worker gets the first device.
GpuOfFirst(gpuList, idx) == gpuList[1]
\* gpus[idx % len(gpus)]
GpuOf(gpuList, idx) == gpuList[(idx % Len(gpuList)) + 1]
\* The exit codes of a worker: 0, 1 (FAIL or an uncaught exception) and a
\* death by signal.
ExitCodes == {0, 1, 0 - 9}
Running(ps) == {i \in 1 .. Len(ps) : ps[i].returncode = None}

MaxLines == 3
MaxHeartbeats == 2
MetadataLines == {"a.wav|kak", "c.wav|k", "m.wav|k"}
RECURSIVE LineLists(_)
LineLists(n) ==
    IF n = 0 THEN {<<>>}
    ELSE LineLists(n - 1) \cup
         {Append(l, x) : l \in {pre \in LineLists(n - 1) : Len(pre) = n - 1}, x \in MetadataLines}
\* --gpus after the split on commas, and --workers-per-gpu.
GpuLists == {<<"0">>, <<"0", "1">>, <<"0", "0">>}
WorkersPerGpu == {0, 1, 2}

InitSharded ==
    /\ lines \in LineLists(MaxLines)
    /\ gpus \in GpuLists
    /\ workers_per_gpu \in WorkersPerGpu
    /\ wavs = <<>> /\ heard = <<>> /\ merged = <<>>
    /\ shards = <<>> /\ procs = <<>> /\ shard_results = <<>>
    /\ heartbeats = 0 /\ overall = "" /\ ret = None
    /\ opc = "start"
    /\ AlignIdle /\ GroupIdle /\ QualIdle /\ ValidIdle /\ ToolIdle

shardInputs == <<lines, wavs, heard, gpus, workers_per_gpu>>
otherVars == <<alignVars, groupVars, qualVars, validVars, toolVars>>

\* total_workers and the shards.
PartitionLines ==
    /\ opc = "start"
    /\ shards' = _round_robin(lines, Max(1, Len(gpus) * Max(1, workers_per_gpu)))
    /\ opc' = "launch"
    /\ UNCHANGED <<shardInputs, procs, shard_results, heartbeats, overall, merged, ret,
                   otherVars>>

\* One turn of the launch loop: the shard is materialized and its worker
\* is started.
LaunchShard ==
    /\ opc = "launch"
    /\ LET idx == Len(procs)
       IN  /\ ~MakeShardRaises(shards[idx + 1])
           /\ procs' = Append(procs, Proc(idx, GpuOf(gpus, idx)))
           /\ opc' = IF idx + 1 = Len(shards) THEN "wait" ELSE "launch"
    /\ UNCHANGED <<shardInputs, shards, shard_results, heartbeats, overall, merged, ret,
                   otherVars>>

\* One turn of the launch loop in which _make_shard_dataset raises: main()
\* ends with the exception, the workers already started keep running.
MakeShardFails ==
    /\ opc = "launch"
    /\ MakeShardRaises(shards[Len(procs) + 1])
    /\ opc' = "raised"
    /\ ret' = Some(1)
    /\ UNCHANGED <<shardInputs, shards, procs, shard_results, heartbeats, overall, merged,
                   otherVars>>

\* A running worker exits.
WorkerExits ==
    \E i \in Running(procs), code \in ExitCodes :
        /\ procs' = [procs EXCEPT ![i].returncode = Some(code)]
        /\ UNCHANGED <<shardInputs, shards, shard_results, heartbeats, overall, merged,
                       ret, opc, otherVars>>

\* One turn of the waiting loop: poll every worker, print a heartbeat when
\* 60 s have passed since the last one (always on the first turn), leave
\* the loop when no worker runs.
Poll ==
    /\ opc = "wait"
    /\ heartbeats' \in IF heartbeats = 0 THEN {1}
                       ELSE {heartbeats, Min(heartbeats + 1, MaxHeartbeats)}
    /\ opc' = IF Running(procs) = {} THEN "collect" ELSE "wait"
    /\ UNCHANGED <<shardInputs, shards, procs, shard_results, overall, merged, ret,
                   otherVars>>

\* Faulty variant: the run fails only when every shard failed.
AllFailed(results) == \A k \in 1 .. Len(results) : results[k].exit_code # 0
\* any(r.exit_code != 0 for r in shard_results)
any_failed(results) == \E k \in 1 .. Len(results) : results[k].exit_code # 0

\* Faulty variant: every exit code is recorded under shard 0.
ShardResultsOfFirst(ps) ==
    [k \in 1 .. Len(ps) |-> [shard_index |-> 0, exit_code |-> ps[k].returncode[1]]]
\* The loop of proc.wait(): one ShardResult per worker, in launch order.
ShardResults(ps) ==
    [k \in 1 .. Len(ps) |-> [shard_index |-> k - 1, exit_code |-> ps[k].returncode[1]]]

\* After the waiting loop: proc.wait() of every worker (each returns once
\* its worker has exited), SUMMARY.txt, the verdict.
WriteSummary ==
    /\ opc = "collect"
    /\ Running(procs) = {}
    /\ shard_results' = ShardResults(procs)
    /\ overall' = IF any_failed(shard_results') THEN "FAIL" ELSE "PASS"
    /\ ret' = Some(IF any_failed(shard_results') THEN 2 ELSE 0)
    /\ opc' = "done"
    /\ UNCHANGED <<shardInputs, shards, procs, heartbeats, merged, otherVars>>

OrchestratorSharded ==
    \/ PartitionLines
    \/ LaunchShard
    \/ MakeShardFails
    \/ Poll
    \/ WriteSummary

NextSharded ==
    \/ OrchestratorSharded
    \/ WorkerExits

SpecSharded == InitSharded /\ [][NextSharded]_vars

\* The orchestrator keeps running while it can, and every running worker
\* eventually exits.
SpecShardedFair ==
    /\ SpecSharded
    /\ WF_vars(OrchestratorSharded)
    /\ WF_vars(WorkerExits)

----------------------------------------------------------------------------
(***************************************************************************)
(* prepare_dataset_whisper_segments_multi.py: one segmenting worker per    *)
(* listed device, then the merge of the shard outputs.  A worker that ends *)
(* with 0 has written its metadata file; what whisper hears in a file does *)
(* not depend on the worker that reads it.                                 *)
(***************************************************************************)

\* wav_path.stem of a name that ends in .wav or .WAV
Stem(name) == Slice(name, 0, Len(name) - 4)
\* The metadata lines of one input file: f"{stem}_{seg_counter:04d}.wav|{text}"
LinesOfWav(name, texts) ==
    [n \in 1 .. Len(texts) |-> Stem(name) \o "_000" \o str(n - 1) \o ".wav|" \o texts[n]]
RECURSIVE Concat(_)
Concat(seqs) == IF seqs = <<>> THEN <<>> ELSE Head(seqs) \o Concat(Tail(seqs))
\* prepare_dataset_whisper_segments.py, main(): the rows of one shard
\* (a sequence of indexes into wavs), file after file.
WorkerMetadata(shard) == Concat([n \in 1 .. Len(shard) |-> LinesOfWav(wavs[shard[n]], heard[shard[n]])])

\* rows.sort()
RECURSIVE SortStrs(_)
SortStrs(strs) == IF strs = <<>> THEN <<>> ELSE InsertStr(Head(strs), SortStrs(Tail(strs)))
\* The names of the files of a shard's wavs/ directory.
ShardWavNames(metadata) == {FirstField(metadata[n]) : n \in 1 .. Len(metadata)}
\* _merge_shards raises RuntimeError: a file name is in two shards.
MergeCollides(metas) ==
    \E i, j \in 1 .. Len(metas) :
        i < j /\ ShardWavNames(metas[i]) \cap ShardWavNames(metas[j]) # {}
\* Faulty variant: the rows are written in shard order.
MergeUnsorted(metas) == Concat(metas)
\* _merge_shards: the rows of every shard, sorted.
_merge_shards(metas) == SortStrs(Concat(metas))

MaxWavs == 3
WavNames == {"a.WAV", "a.wav", "b.wav", "c.wav"}
\* The segments whisper hears in a file and the worker keeps.
HeardTexts == {<<>>, <<"kak">>, <<"ka", "kak">>}
MultiGpuLists == {<<"0">>, <<"0", "1">>, <<"0", "1", "2">>}

InitMulti ==
    /\ wavs \in {SortedSet(S) : S \in {T \in SUBSET WavNames : Cardinality(T) <= MaxWavs}}
    /\ heard \in [1 .. Len(wavs) -> HeardTexts]
    /\ gpus \in MultiGpuLists
    /\ lines = <<>> /\ workers_per_gpu = 0 /\ heartbeats = 0 /\ overall = ""
    /\ shards = <<>> /\ procs = <<>> /\ shard_results = <<>>
    /\ merged = None /\ ret = None
    /\ opc = "start"
    /\ AlignIdle /\ GroupIdle /\ QualIdle /\ ValidIdle /\ ToolIdle

\* shards = _chunk_round_robin(wavs, len(gpus)); a file is named by its
\* index in wavs.
PartitionWavs ==
    /\ opc = "start"
    /\ shards' = _chunk_round_robin([n \in 1 .. Len(wavs) |-> n], Len(gpus))
    /\ opc' = "launch"
    /\ UNCHANGED <<shardInputs, procs, shard_results, heartbeats, overall, merged, ret,
                   otherVars>>

\* One turn of the launch loop.
LaunchWorker ==
    /\ opc = "launch"
    /\ LET idx == Len(procs)
       IN  /\ procs' = Append(procs, Proc(idx, gpus[idx + 1]))
           /\ opc' = IF idx + 1 = Len(gpus) THEN "wait" ELSE "launch"
    /\ UNCHANGED <<shardInputs, shards, shard_results, heartbeats, overall, merged, ret,
                   otherVars>>

\* A running worker ends: with 0 after writing its metadata, or with
\* another code.  exit_rank records how many workers ended before it.
WorkerEnds ==
    \E i \in Running(procs), code \in ExitCodes :
        /\ procs' = [procs EXCEPT ![i] =
                        [shard |-> @.shard, gpu |-> @.gpu, returncode |-> Some(code),
                         metadata |-> IF code = 0 THEN Some(WorkerMetadata(shards[i]))
                                      ELSE None,
                         exit_rank |-> Some(Len(procs) - Cardinality(Running(procs)))]]
        /\ UNCHANGED <<shardInputs, shards, shard_results, heartbeats, overall, merged,
                       ret, opc, otherVars>>

\* exit_codes = [p.wait() for p in procs]: the next p.wait() returns.
WaitWorker ==
    /\ opc = "wait"
    /\ LET idx == Len(shard_results)
       IN  /\ idx < Len(procs)
           /\ procs[idx + 1].returncode # None
           /\ shard_results' = Append(shard_results, procs[idx + 1].returncode[1])
    /\ UNCHANGED <<shardInputs, shards, procs, heartbeats, overall, merged, ret, opc,
                   otherVars>>

\* A worker failed: SystemExit with a message.
WorkersFailed ==
    /\ opc = "wait"
    /\ Len(shard_results) = Len(procs)
    /\ \E k \in 1 .. Len(shard_results) : shard_results[k] # 0
    /\ opc' = "raised"
    /\ ret' = Some(1)
    /\ UNCHANGED <<shardInputs, shards, procs, shard_results, heartbeats, overall, merged,
                   otherVars>>

ShardMetadata == [k \in 1 .. Len(procs) |-> procs[k].metadata[1]]

\* Every worker ended with 0: _merge_shards writes the merged metadata.
MergeShards ==
    /\ opc = "wait"
    /\ Len(shard_results) = Len(procs)
    /\ \A k \in 1 .. Len(shard_results) : shard_results[k] = 0
    /\ ~MergeCollides(ShardMetadata)
    /\ merged' = Some(_merge_shards(ShardMetadata))
    /\ opc' = "done"
    /\ ret' = Some(0)
    /\ UNCHANGED <<shardInputs, shards, procs, shard_results, heartbeats, overall,
                   otherVars>>

\* Every worker ended with 0 and _merge_shards raises on a name collision.
MergeRaises ==
    /\ opc = "wait"
    /\ Len(shard_results) = Len(procs)
    /\ \A k \in 1 .. Len(shard_results) : shard_results[k] = 0
    /\ MergeCollides(ShardMetadata)
    /\ opc' = "raised"
    /\ ret' = Some(1)
    /\ UNCHANGED <<shardInputs, shards, procs, shard_results, heartbeats, overall, merged,
                   otherVars>>

NextMulti ==
    \/ PartitionWavs
    \/ LaunchWorker
    \/ WorkerEnds
    \/ WaitWorker
    \/ WorkersFailed
    \/ MergeShards
    \/ MergeRaises

SpecMulti == InitMulti /\ [][NextMulti]_vars

----------------------------------------------------------------------------
(***************************************************************************)
(* The sharded validation with workers that are runs of                    *)
(* validate_dataset_full.py on their shard datasets, next to one run of    *)
(* the same validator on the whole dataset.  No worker crashes; the        *)
(* round-trip check is not mandatory (--require-whisper is not given).     *)
(***************************************************************************)

\* csv.reader(f, delimiter="|") on one line without quotes: its fields.
RECURSIVE SplitBar(_)
SplitBar(line) ==
    LET first == FirstField(line)
    IN  IF Len(first) = Len(line) THEN <<first>>
        ELSE <<first>> \o SplitBar(Slice(line, Len(first) + 1, Len(line)))
\* read_metadata: the rows of a metadata file, given its lines.
read_metadata(fileLines) ==
    [i \in 1 .. Len(fileLines) |->
        LET row == SplitBar(fileLines[i])
        IN  IF \A k \in 1 .. Len(row) : Strip(row[k]) = ""
            THEN MetaRow(i, "", "", "empty_row")
            ELSE IF Len(row) < 2 THEN MetaRow(i, Strip(row[1]), "", "missing_text")
            ELSE MetaRow(i, Strip(row[1]), Strip(row[2]), "")]

\* The arguments a worker gets from _run_validator, the defaults elsewhere.
WorkerArgs == [whisper |-> TRUE, require_whisper |-> FALSE, min_text_len |-> 3,
               max_text_len |-> 400]

\* validate_dataset_full.py, main(): whether the run of the validator on
\* the dataset d with the metadata rows rws ends with FAIL.  Round-trip
\* issues are left out: they count only with --require-whisper.
VerdictFailed(d, rws, args) ==
    LET checked(r) == r.row_issue = "" /\ ~Missing(d, r.wav)
        named == {rws[i].wav : i \in {k \in 1 .. Len(rws) : rws[k].row_issue = ""}}
    IN  Failed(If(~d.config, "missing_config") \o If(~d.metadata, "missing_metadata")
                   \o If(~d.wavs_dir, "missing_wavs_dir"),
               Concat([i \in 1 .. Len(rws) |->
                          If(rws[i].row_issue = "" /\ Missing(d, rws[i].wav), "missing_wav")]),
               Concat([i \in 1 .. Len(rws) |->
                          If(rws[i].row_issue = ""
                             /\ \E j \in 1 .. i - 1 :
                                    rws[j].row_issue = "" /\ rws[j].wav = rws[i].wav,
                             "duplicate_wav")]),
               SortedSet((IF d.wavs_dir THEN d.wav_files ELSE {}) \ named),
               Concat([i \in 1 .. Len(rws) |->
                          IF rws[i].row_issue # "" THEN <<rws[i].row_issue>>
                          ELSE IF checked(rws[i]) THEN ValidatorTextIssues(rws[i], args)
                          ELSE <<>>]),
               Concat([i \in 1 .. Len(rws) |->
                          IF checked(rws[i])
                          THEN ValidatorAudioIssues(rws[i], IF d.config THEN Some(ConfiguredRate)
                                                                        ELSE None)
                          ELSE <<>>]),
               <<>>, args)

\* The dataset _make_shard_dataset builds for a shard: config.json, the
\* shard's lines as metadata, and a link for each file they name.
ShardDataset(metadata_lines) ==
    Disk(TRUE, TRUE, TRUE, {FirstField(metadata_lines[k]) : k \in 1 .. Len(metadata_lines)})
\* The whole dataset.
SourceDataset == Disk(TRUE, TRUE, TRUE, SourceWavs)

CorpusLines == {"a.wav|kak", "c.wav|kak", "c.wav|k", "m.wav|kak"}

InitShardedValidate ==
    /\ lines \in UNION {[1 .. n -> CorpusLines] : n \in 0 .. MaxLines}
    /\ gpus \in GpuLists
    /\ workers_per_gpu \in WorkersPerGpu
    /\ wavs = <<>> /\ heard = <<>> /\ merged = <<>>
    /\ shards = <<>> /\ procs = <<>> /\ shard_results = <<>>
    /\ heartbeats = 0 /\ overall = "" /\ ret = None
    /\ opc = "start"
    /\ AlignIdle /\ GroupIdle /\ QualIdle /\ ValidIdle /\ ToolIdle

\* A running worker ends its validation: exit code 1 on FAIL, 0 on PASS.
WorkerValidates ==
    \E i \in Running(procs) :
        /\ procs' = [procs EXCEPT ![i].returncode =
                        Some(IF VerdictFailed(ShardDataset(shards[i]),
                                              read_metadata(shards[i]), WorkerArgs)
                             THEN 1 ELSE 0)]
        /\ UNCHANGED <<shardInputs, shards, shard_results, heartbeats, overall, merged,
                       ret, opc, otherVars>>

NextShardedValidate ==
    \/ OrchestratorSharded
    \/ WorkerValidates

SpecShardedValidate == InitShardedValidate /\ [][NextShardedValidate]_vars

----------------------------------------------------------------------------
(* Properties of the quality report, checked under SpecQuality.            *)

\* The number of duplicate_text suspects recorded for row i.
DuplicateReports(i) ==
    Cardinality({k \in 1 .. Len(suspects) :
                    suspects[k].row = i /\ suspects[k].issue = "duplicate_text"})
SameNormalized(i, j) == normalize_text(rows[i].text) = normalize_text(rows[j].text)

\* C12, as stated: once the rows are processed, a row is reported as
\* duplicate_text exactly when an earlier row has the same normalized text
\* (read for the rows that have a filename and a text at all).
HasFields(i) == rows[i].wav # "" /\ rows[i].text # ""
C12_DuplicateAsStated ==
    qpc \in {"write", "done"} =>
        \A i \in 1 .. Len(rows) :
            HasFields(i) =>
                (DuplicateReports(i) > 0
                    <=> \E j \in 1 .. i - 1 : HasFields(j) /\ SameNormalized(i, j))

\* A row that takes part in duplicate detection: filename and text are not
\* empty and the text does not normalize to the empty string.
Indexed(i) ==
    rows[i].wav # "" /\ rows[i].text # "" /\ normalize_text(rows[i].text) # ""

\* C12, amended: among the rows with a filename, a text and a non-empty
\* normalized text, a row is reported as duplicate_text (once) exactly when
\* an earlier such row has the same normalized text; no other row is ever
\* reported as a duplicate.
C12_DuplicateAmongIndexed ==
    qpc \in {"write", "done"} =>
        \A i \in 1 .. Len(rows) :
            IF Indexed(i) /\ \E j \in 1 .. i - 1 : Indexed(j) /\ SameNormalized(i, j)
            THEN DuplicateReports(i) = 1
            ELSE DuplicateReports(i) = 0
\* The spec's example: three rows that differ by case and punctuation only;
\* the second and the third are reported, the first is not.
C12_Witness ==
    /\ qpc = "done" /\ Len(rows) = 3
    /\ rows[1].text = "Kak" /\ rows[2].text = "kak!" /\ rows[3].text = "kak"
    /\ DuplicateReports(1) = 0 /\ DuplicateReports(2) = 1 /\ DuplicateReports(3) = 1

----------------------------------------------------------------------------
(* Properties of the full validation, checked under SpecValidate.          *)

\* The conditions of the verdict rule, read off the corpus itself.
\* A structural error: config, metadata or wavs/ is missing, or a metadata
\* row is blank or has no text column.
StructuralError ==
    \/ ~disk.config \/ ~disk.metadata \/ ~disk.wavs_dir
    \/ \E i \in 1 .. Len(metadata_rows) : metadata_rows[i].row_issue # ""
\* A duplicate: two well-formed rows name the same audio file.
DuplicateFilename ==
    \E i, j \in 1 .. Len(metadata_rows) :
        /\ i < j
        /\ metadata_rows[i].row_issue = "" /\ metadata_rows[j].row_issue = ""
        /\ metadata_rows[i].wav = metadata_rows[j].wav
\* A missing file: a well-formed row names a file that wavs/ does not hold.
MissingAudio ==
    \E i \in 1 .. Len(metadata_rows) :
        /\ metadata_rows[i].row_issue = ""
        /\ metadata_rows[i].wav # ""
        /\ ~(disk.wavs_dir /\ metadata_rows[i].wav \in disk.wav_files)
\* An extra file: wavs/ holds a file that no row names.
ExtraAudio ==
    /\ disk.wavs_dir
    /\ \E f \in disk.wav_files :
           \A i \in 1 .. Len(metadata_rows) : metadata_rows[i].wav # f
\* The round-trip check is mandatory and found an issue or did not run.
RoundTripFailure ==
    vargs.require_whisper /\ (whisper_issues # <<>> \/ ~vargs.whisper)
FailCondition ==
    StructuralError \/ DuplicateFilename \/ MissingAudio \/ ExtraAudio \/ RoundTripFailure

C14_PassAsStated ==
    (vpc = "done" /\ ~FailCondition) => (verdict = "PASS" /\ exit_code = Some(0))

\* C14, amended: a finished run without any of the FAIL conditions, in
\* which no text issue and no audio issue was found either, has verdict
\* PASS and exit code 0.
C14_PassWhenNothingFound ==
    (vpc = "done" /\ ~FailCondition /\ text_issues = <<>> /\ audio_issues = <<>>)
        => (verdict = "PASS" /\ exit_code = Some(0))
\* Two clean rows pass although the optional round-trip check found issues.
C14_Witness ==
    /\ vpc = "done" /\ Len(metadata_rows) = 2
    /\ vargs.whisper /\ ~vargs.require_whisper /\ whisper_issues # <<>>
    /\ verdict = "PASS" /\ exit_code = Some(0)

\* C15: every text check that applies to a well-formed row is evaluated
\* and its finding recorded, whatever the other checks found on that row,
\* and the run ends only after every row was processed.
C15_ChecksIndependent ==
    /\ \A i \in 1 .. vi :
           LET r == metadata_rows[i]
               found == ValidatorTextIssues(r, vargs)
           IN  r.row_issue = "" =>
                   \A k \in 1 .. Len(found) :
                       \E n \in 1 .. Len(text_issues) : text_issues[n] = Issue(r, found[k])
    /\ vpc = "done" => vi = Len(metadata_rows)

----------------------------------------------------------------------------
(***************************************************************************)
(* Properties of the sharded validation, checked under SpecSharded and     *)
(* SpecShardedFair.                                                        *)
(***************************************************************************)

Partitioned == opc \notin {"idle", "start"}

\* C16: round-robin partitioning of N rows over K workers puts row i
\* (0-based) in shard i mod K, at the place i div K: every row is in
\* exactly one shard, the rows of a shard keep their order, and two shard
\* sizes differ by at most 1.
C16_RoundRobin ==
    Partitioned =>
        LET K == Len(shards)
            N == Len(lines)
        IN  /\ \A k \in 1 .. K :
                   Len(shards[k]) = Cardinality({i \in 0 .. N - 1 : i % K = k - 1})
            /\ \A i \in 0 .. N - 1 : shards[(i % K) + 1][(i \div K) + 1] = lines[i + 1]
            /\ \A k, l \in 1 .. K : Len(shards[k]) - Len(shards[l]) <= 1
\* Three rows have been dealt to two shards, or to four.
C16_Witness ==
    /\ Partitioned
    /\ Len(lines) = 3
    /\ Len(shards) \in {2, 4}
    /\ lines[1] # lines[2]

SomeWorkerFailed == \E i \in 1 .. Len(procs) : procs[i].returncode \notin {None, Some(0)}

\* C17: when a worker has exited with a non-zero code, the orchestrator
\* never reports PASS and never returns 0, and the status of a run that
\* reaches its verdict is FAIL; PASS is reported only when the worker of
\* every shard has exited with 0.
C17_FailOnWorkerFailure ==
    /\ (ret # None /\ SomeWorkerFailed) => (overall # "PASS" /\ ret # Some(0))
    /\ (opc = "done" /\ SomeWorkerFailed) => overall = "FAIL"
    /\ overall = "PASS" =>
           /\ Len(procs) = Len(shards)
           /\ \A i \in 1 .. Len(procs) : procs[i].returncode = Some(0)
\* A run of two workers has ended, one worker with 0 and one killed by a
\* signal.
C17_Witness ==
    /\ opc = "done"
    /\ Len(procs) = 2
    /\ procs[1].returncode = Some(0)
    /\ procs[2].returncode = Some(0 - 9)

\* At most one worker per shard, and a verdict only over exited workers
\* with one exit code per shard.
LaunchedOnce ==
    /\ Len(procs) <= Len(shards)
    /\ \A i, j \in 1 .. Len(procs) : procs[i].shard = procs[j].shard => i = j
    /\ \A i \in 1 .. Len(procs) : procs[i].shard = i - 1
VerdictAfterExit ==
    /\ (shard_results # <<>> \/ overall # "") => opc = "done"
    /\ opc = "done" =>
           /\ Len(procs) = Len(shards)
           /\ Running(procs) = {}
           /\ Len(shard_results) = Len(shards)
           /\ \A k \in 0 .. Len(shards) - 1 :
                  /\ Cardinality({n \in 1 .. Len(shard_results) :
                                     shard_results[n].shard_index = k}) = 1
                  /\ \A n \in 1 .. Len(shard_results) :
                         shard_results[n].shard_index = k =>
                             Some(shard_results[n].exit_code) = procs[k + 1].returncode
\* A worker once launched stays in the list, is never replaced, and its
\* exit code never changes.
NeverRelaunched ==
    /\ Len(procs') >= Len(procs)
    /\ \A i \in 1 .. Len(procs) :
           /\ procs'[i].shard = procs[i].shard
           /\ procs[i].returncode # None => procs'[i] = procs[i]
Terminated == opc \in {"done", "raised"}

\* C18: each shard's worker is launched once and never again, the summary
\* and the verdict come only after every launched worker has exited, with
\* one exit code per shard; and when every worker eventually exits, the
\* orchestrator eventually terminates.
C18_SuperviseOnce ==
    /\ [](LaunchedOnce /\ VerdictAfterExit)
    /\ [][NeverRelaunched]_vars
    /\ <>Terminated
\* A run of four workers has reached its verdict.
C18_Witness ==
    /\ opc = "done"
    /\ Len(procs) = 4
    /\ heartbeats = MaxHeartbeats

DistinctIds(gpuList) == \A i, j \in 1 .. Len(gpuList) : gpuList[i] = gpuList[j] => i = j

\* C19 as stated: two workers that run at the same time never have the
\* same device.
C19_DistinctDevicesAsStated ==
    \A i, j \in Running(procs) : procs[i].gpu = procs[j].gpu => i = j
\* C19: when --gpus lists each device once and --workers-per-gpu is at most
\* 1, no two workers of a run have the same device.
C19_DistinctDevicesWhenOnePerGpu ==
    (DistinctIds(gpus) /\ workers_per_gpu <= 1) =>
        \A i, j \in 1 .. Len(procs) : procs[i].gpu = procs[j].gpu => i = j
\* Two workers run at the same time, one per listed device.
C19_Witness ==
    /\ DistinctIds(gpus)
    /\ workers_per_gpu <= 1
    /\ Running(procs) = {1, 2}

----------------------------------------------------------------------------
(***************************************************************************)
(* Properties of the multi-device segmentation, checked under SpecMulti.   *)
(***************************************************************************)

Count(x, strs) == Cardinality({n \in 1 .. Len(strs) : strs[n] = x})
SameLines(rowsA, rowsB) ==
    /\ Len(rowsA) = Len(rowsB)
    /\ \A n \in 1 .. Len(rowsA) : Count(rowsA[n], rowsA) = Count(rowsA[n], rowsB)
IsSorted(strs) == \A i, j \in 1 .. Len(strs) : i < j => ~StrLess(strs[j], strs[i])
\* The lines of every input file, in the order of wavs: what an unsharded
\* run produces.
LinesOfAllWavs == Concat([n \in 1 .. Len(wavs) |-> LinesOfWav(wavs[n], heard[n])])

----------------------------------------------------------------------------
(***************************************************************************)
(* Materialization of the shards, checked under SpecSharded.               *)
(***************************************************************************)

\* Shard k (1-based) has a row whose audio file is not in wavs/.
ReferencesAbsentFile(k) ==
    \E n \in 1 .. Len(shards[k]) :
        \A w \in SourceWavs : shards[k][n] # w \o "|" \o Slice(shards[k][n], Len(w) + 1, Len(shards[k][n]))
LaunchedShards == {procs[i].shard + 1 : i \in 1 .. Len(procs)}

\* C21: when a shard has a row whose audio file is absent, no worker is
\* ever launched for that shard, no verdict is reported and no summary is
\* written; the run leaves the launch loop only by the error of a
\* materialization, at that shard or before it, with a non-zero exit code.
C21_AbsentFileAborts ==
    (Partitioned /\ \E k \in 1 .. Len(shards) : ReferencesAbsentFile(k)) =>
        /\ \A k \in LaunchedShards : ~ReferencesAbsentFile(k)
        /\ overall = "" /\ shard_results = <<>>
        /\ opc \in {"launch", "raised"}
        /\ opc = "raised" => (ret = Some(1) /\ Len(procs) < Len(shards))
        /\ (opc = "launch" /\ ReferencesAbsentFile(Len(procs) + 1)) => ~ENABLED LaunchShard
\* The run has aborted on a shard of two rows whose first row names a
\* file that is there.
C21_Witness ==
    /\ opc = "raised"
    /\ Len(shards) = 2
    /\ Len(shards[Len(procs) + 1]) = 2
    /\ FirstField(shards[Len(procs) + 1][1]) \in SourceWavs

----------------------------------------------------------------------------
(***************************************************************************)
(* The sharded and the unsharded validation, checked under                 *)
(* SpecShardedValidate.                                                    *)
(***************************************************************************)

UnshardedFails == VerdictFailed(SourceDataset, read_metadata(lines), WorkerArgs)

\* C27: a sharded run that reaches its verdict reports FAIL exactly when
\* the run of the validator on the whole dataset reports FAIL.
C27_SameVerdict ==
    opc = "done" => (overall = "FAIL" <=> UnshardedFails)

----------------------------------------------------------------------------
(***************************************************************************)
(* main() of felix_mirage_v2_align_whisperx.py and of 01_text_splitter.py  *)
(* as runs against the file system: the option checks, the guard on an     *)
(* existing output, the loop over the input and the one write at the end.  *)
(* The alignment of one item and the grouping of one text are modelled     *)
(* above (SpecAlign, SpecGroup); here an item is what decides whether the  *)
(* loop skips it, aborts on it or appends its records.                     *)
(***************************************************************************)

MaxItems == 2

\* What a former run left at the output path.
OldOutput == Some(<<"old">>)

\* A Stage A item as the loop of the aligner reads it: audio_path ("" for
\* absent or blank), the number of sentences, whether the audio file is
\* there and whether the engine returns words for it.
StageAItems ==
    [audio_path : {"", "a.wav"}, sentences : {0, 2},
     is_file : BOOLEAN, words : BOOLEAN]

\* A manifest line as process_manifest() reads it: blank, a line that is
\* dropped (no record, no text, no audio_path, no segments) or one kept.
ManifestLines == {"blank", "dropped", "kept"}

ItemLists(S, n) == UNION {[1 .. k -> S] : k \in 0 .. n}

\* items[: args.limit]
Take(s, n) == SubSeq(s, 1, Min(n, Len(s)))

\* The records the aligner appends for one item, one per sentence.
ItemRecords(item) == [j \in 1 .. item.sentences |-> item.audio_path]

InitRun ==
    /\ \E ow \in BOOLEAN, limit \in 0 .. 1 :
          \/ \E dr \in BOOLEAN, f \in BOOLEAN, d \in BOOLEAN :
                /\ run_args = [tool |-> "align", overwrite |-> ow, dry_run |-> dr,
                               limit |-> limit, to_align_is_file |-> f,
                               audio_root_is_dir |-> d]
                /\ run_items \in ItemLists(StageAItems, MaxItems)
          \/ \E tl \in {39, 40}, ml \in {9, 10}, rz \in BOOLEAN, f \in BOOLEAN :
                /\ run_args = [tool |-> "split", overwrite |-> ow, limit |-> limit,
                               target_length |-> tl, min_length |-> ml,
                               razdel |-> rz, input_is_file |-> f]
                /\ run_items \in ItemLists(ManifestLines, MaxItems)
    /\ out_file \in {None, OldOutput}
    /\ item_i = 0 /\ seen_nonempty = 0 /\ run_lines = <<>>
    /\ run_ret = None /\ rpc = "start"
    /\ AlignIdle /\ GroupIdle /\ QualIdle /\ ValidIdle /\ ShardIdle /\ ReviewIdle
    /\ CandIdle

runOther == <<alignVars, groupVars, qualVars, validVars, shardVars, reviewVars,
              candVars>>

\* A guard that lets every run through.
AlignerNeverRefuses(a, out) == FALSE
\* if out_path.exists() and not args.overwrite and not args.dry_run
AlignerRefuses(a, out) == out # None /\ ~a.overwrite /\ ~a.dry_run

\* main() of the aligner up to the loop.
AlignerStarts ==
    /\ rpc = "start" /\ run_args.tool = "align"
    /\ IF ~run_args.to_align_is_file
          THEN rpc' = "fatal" /\ run_ret' = Some(1) /\ UNCHANGED run_items
       ELSE IF ~run_args.audio_root_is_dir
          THEN rpc' = "fatal" /\ run_ret' = Some(1) /\ UNCHANGED run_items
       ELSE IF AlignerRefuses(run_args, out_file)
          THEN rpc' = "fatal" /\ run_ret' = Some(1) /\ UNCHANGED run_items
       ELSE /\ run_items' = IF run_args.limit > 0
                               THEN Take(run_items, run_args.limit)
                               ELSE run_items
            /\ rpc' = "loop" /\ UNCHANGED run_ret
    /\ UNCHANGED <<run_args, out_file, item_i, seen_nonempty, run_lines, runOther>>

\* A loop that writes the cutlist as it goes, item by item.
AlignerItemWrites ==
    /\ rpc = "loop" /\ run_args.tool = "align" /\ item_i < Len(run_items)
    /\ LET item == run_items[item_i + 1] IN
          /\ item_i' = item_i + 1
          /\ IF item.audio_path = "" \/ item.sentences = 0
                THEN UNCHANGED <<run_lines, run_ret, rpc, out_file>>
             ELSE IF ~item.is_file \/ ~item.words
                THEN /\ rpc' = "aborted" /\ run_ret' = Some(1)
                     /\ UNCHANGED <<run_lines, out_file>>
             ELSE /\ run_lines' = run_lines \o ItemRecords(item)
                  /\ out_file' = IF run_args.dry_run THEN out_file
                                 ELSE Some(run_lines \o ItemRecords(item))
                  /\ UNCHANGED <<run_ret, rpc>>
    /\ UNCHANGED <<run_args, run_items, seen_nonempty, runOther>>
\* One iteration of the loop of the aligner.
AlignerItem ==
    /\ rpc = "loop" /\ run_args.tool = "align" /\ item_i < Len(run_items)
    /\ LET item == run_items[item_i + 1] IN
          /\ item_i' = item_i + 1
          /\ IF item.audio_path = "" \/ item.sentences = 0
                THEN UNCHANGED <<run_lines, run_ret, rpc>>
             ELSE IF ~item.is_file \/ ~item.words
                THEN /\ rpc' = "aborted" /\ run_ret' = Some(1)
                     /\ UNCHANGED run_lines
             ELSE /\ run_lines' = run_lines \o ItemRecords(item)
                  /\ UNCHANGED <<run_ret, rpc>>
    /\ UNCHANGED <<run_args, out_file, run_items, seen_nonempty, runOther>>

\* After the loop: the summary of --dry-run, or the one write.
AlignerFinishes ==
    /\ rpc = "loop" /\ run_args.tool = "align" /\ item_i = Len(run_items)
    /\ out_file' = IF run_args.dry_run THEN out_file ELSE Some(run_lines)
    /\ run_ret' = Some(0) /\ rpc' = "done"
    /\ UNCHANGED <<run_args, run_items, item_i, seen_nonempty, run_lines, runOther>>

\* main() of the splitter up to the loop of process_manifest().
SplitterStarts ==
    /\ rpc = "start" /\ run_args.tool = "split"
    /\ IF run_args.target_length < 40 \/ run_args.min_length < 10
          THEN rpc' = "fatal" /\ run_ret' = Some(2)
       ELSE IF out_file # None /\ ~run_args.overwrite
          THEN rpc' = "fatal" /\ run_ret' = Some(2)
       ELSE IF ~run_args.razdel \/ ~run_args.input_is_file
          THEN rpc' = "fatal" /\ run_ret' = Some(2)
       ELSE /\ rpc' = IF run_items = <<>> THEN "write" ELSE "loop"
            /\ UNCHANGED run_ret
    /\ UNCHANGED <<run_args, out_file, run_items, item_i, seen_nonempty,
                   run_lines, runOther>>

\* One iteration of the loop of process_manifest().
SplitterLine ==
    /\ rpc = "loop" /\ run_args.tool = "split" /\ item_i < Len(run_items)
    /\ LET line == run_items[item_i + 1]
           nonempty == IF line # "blank" THEN seen_nonempty + 1 ELSE seen_nonempty
           break == line # "blank" /\ run_args.limit > 0 /\ nonempty > run_args.limit
       IN /\ seen_nonempty' = nonempty
          /\ item_i' = item_i + 1
          /\ run_lines' = IF ~break /\ line = "kept"
                             THEN Append(run_lines, "entry")
                             ELSE run_lines
          /\ rpc' = IF break \/ item_i + 1 = Len(run_items) THEN "write" ELSE "loop"
    /\ UNCHANGED <<run_args, out_file, run_items, run_ret, runOther>>

\* output_file.write_text(...) and the return of main().
SplitterWrites ==
    /\ rpc = "write" /\ run_args.tool = "split"
    /\ out_file' = Some(run_lines)
    /\ run_ret' = Some(0) /\ rpc' = "done"
    /\ UNCHANGED <<run_args, run_items, item_i, seen_nonempty, run_lines, runOther>>

NextRun ==
    \/ AlignerStarts
    \/ AlignerItem
    \/ AlignerFinishes
    \/ SplitterStarts
    \/ SplitterLine
    \/ SplitterWrites

SpecRun == InitRun /\ [][NextRun]_vars

----------------------------------------------------------------------------
(***************************************************************************)
(* The output file of a run, checked under SpecRun.                        *)
(***************************************************************************)

DryRun == run_args.tool = "align" /\ run_args.dry_run

\* The run has ended in a fatal error and has done no work.
FatalBeforeWork ==
    /\ rpc = "fatal" /\ run_ret \in {Some(1), Some(2)}
    /\ item_i = 0 /\ run_lines = <<>>

\* An existing output is replaced only with --overwrite and without
\* --dry-run, and a run that has --dry-run writes nothing.
ReplacedOnlyOnRequest ==
    /\ (out_file # None /\ out_file' # out_file) => (run_args.overwrite /\ ~DryRun)
    /\ DryRun => out_file' = out_file

\* C22 as stated: an existing output file is replaced only by a run given
\* --overwrite and not --dry-run; every run without --overwrite against an
\* existing output ends in a fatal error before doing any work and leaves
\* the file unchanged; a run that has --dry-run never writes the output.
C22_OverwriteGuardAsStated ==
    /\ [][ReplacedOnlyOnRequest]_vars
    /\ []((rpc # "start" /\ out_file = OldOutput /\ ~run_args.overwrite)
              => FatalBeforeWork)

\* C22, amended: an existing output file is replaced only by a run given
\* --overwrite and not --dry-run; a run given neither --overwrite nor
\* --dry-run against an existing output ends in a fatal error before doing
\* any work and leaves the file unchanged; a run that has --dry-run never
\* writes the output.
C22_OverwriteGuard ==
    /\ [][ReplacedOnlyOnRequest]_vars
    /\ []((rpc # "start" /\ out_file = OldOutput /\ ~run_args.overwrite /\ ~DryRun)
              => FatalBeforeWork)

\* The aligner, given its inputs and some items but neither --overwrite
\* nor --dry-run, has refused to run against an existing output.
C22_Witness ==
    /\ rpc = "fatal" /\ out_file = OldOutput
    /\ run_args.tool = "align" /\ ~run_args.overwrite /\ ~run_args.dry_run
    /\ run_args.to_align_is_file /\ run_args.audio_root_is_dir
    /\ run_items # <<>>

\* The cutlist changes only in the step that ends the run, taken when the
\* loop has been through every item.
WrittenAtTheEnd ==
    (run_args.tool = "align" /\ out_file' # out_file)
        => (rpc = "loop" /\ item_i = Len(run_items) /\ rpc' = "done")

\* C29: the aligner writes the cutlist only once, after every Stage A item
\* has been processed; a run that aborts on an item (missing audio file, or
\* no words from the engine) creates and modifies no cutlist, even for the
\* items already aligned.
C29_WriteOnceAtEnd ==
    /\ [][WrittenAtTheEnd]_vars
    /\ [](rpc = "aborted" => out_file \in {None, OldOutput})
    /\ []((rpc = "done" /\ run_args.tool = "align") => ~ENABLED NextRun)

\* A run that may write has aligned an item and then aborted on a later
\* one.
C29_Witness ==
    /\ rpc = "aborted" /\ run_lines # <<>>
    /\ ~run_args.dry_run
    /\ item_i = 2

----------------------------------------------------------------------------
(***************************************************************************)
(* cutlist_review_ui.py: the reviewer.  A record is a dict, kept as the    *)
(* sequence of its <<key, value>> pairs in insertion order; a value is     *)
(* None for null and Some(v) otherwise, numbers by their JSON text.  A     *)
(* file is the sequence of the records on its lines.                       *)
(***************************************************************************)

MaxRecords == 2

\* k in d
Has(d, k) == \E i \in 1 .. Len(d) : d[i][1] = k
\* d.get(k): None when the key is absent, and when its value is null
Get(d, k) ==
    IF Has(d, k) THEN d[CHOOSE i \in 1 .. Len(d) : d[i][1] = k][2] ELSE None
\* d[k] = v: in place for a key that is there, at the end for a new one
Put(d, k, v) ==
    IF Has(d, k)
        THEN [i \in 1 .. Len(d) |-> IF d[i][1] = k THEN <<k, v>> ELSE d[i]]
        ELSE Append(d, <<k, v>>)
Keys(d) == {d[i][1] : i \in 1 .. Len(d)}

\* _load_cutlist(): the records of the file, each with _text_orig
LoadRecord(d) ==
    IF Has(d, "_text_orig") THEN d ELSE Put(d, "_text_orig", Get(d, "text"))
_load_cutlist(recs) == [i \in 1 .. Len(recs) |-> LoadRecord(recs[i])]

Transient(kv) == Len(kv[1]) > 0 /\ Ch(kv[1], 0) = "_"
KeepsField(kv) == ~Transient(kv)
\* A filter that takes every key with an underscore in it for transient.
CleanAnyUnderscore(d) ==
    LET Plain(kv) == \A i \in 1 .. Len(kv[1]) : Ch(kv[1], i - 1) # "_"
    IN SelectSeq(d, Plain)
\* _clean() of _dump_cutlist()
_clean(d) == SelectSeq(d, KeepsField)
\* _dump_cutlist(): what is written, one record per line
_dump_cutlist(recs) == [i \in 1 .. Len(recs) |-> _clean(recs[i])]

\* A save that also marks the record as reviewed.
SaveMarksReviewed(r, text, verdict_in, note) ==
    Put(Put(r, "status", Some("reviewed")), "review",
        Some([verdict |-> verdict_in, note |-> note]))
\* _save_edit_logic() on the record r = rows[indices[pos]]
_save_edit_logic(r, text, verdict_in, note) ==
    LET r1 == IF text # None THEN Put(r, "text", text) ELSE r
        r2 == IF text # None /\ Get(r1, "_text_orig") # text /\ ~Has(r1, "text_orig")
                 THEN Put(r1, "text_orig", Get(r1, "_text_orig"))
                 ELSE r1
    IN Put(r2, "review", Some([verdict |-> verdict_in, note |-> note]))

\* The records a cutlist may hold: an aligned chunk, an unmatched one
\* that carries a text_orig and fields of other tools, and an unmatched
\* one without a text.
CutlistRecords ==
    { << <<"src_audio", Some("a.wav")>>, <<"start", Some("0.5")>>,
         <<"end", Some("1.5")>>, <<"text", Some("kak")>>,
         <<"sim", Some("0.9")>>, <<"status", Some("ok")>> >>,
      << <<"_tmp", Some("x")>>, <<"src_audio", Some("a.wav")>>,
         <<"start", None>>, <<"end", None>>, <<"text", Some("k")>>,
         <<"text_orig", Some("kk")>>, <<"_text_orig", Some("kkk")>>,
         <<"sim", Some("0.2")>>, <<"status", Some("unmatched")>> >>,
      << <<"src_audio", Some("a.wav")>>, <<"status", Some("unmatched")>> >> }

CutlistPath == "c.jsonl"
Paths == {CutlistPath, "c.jsonl.reviewed.jsonl", "o.jsonl"}
\* What the text box (a string), the verdict radio and the note box may
\* hold.
TextInputs == {Some("k")}
Verdicts == {"drop"}
Notes == {"n"}

InitReview ==
    /\ \E c \in {None} \cup {Some(l) : l \in ItemLists(CutlistRecords, MaxRecords)} :
          fs = [p \in Paths |-> IF p = CutlistPath THEN c ELSE None]
    /\ \E o \in {None, Some("o.jsonl"), Some(CutlistPath)},
          mode \in {"unmatched", "all"}, d \in BOOLEAN :
          cargs = [cutlist |-> CutlistPath, out |-> o, mode |-> mode,
                   audio_root_is_dir |-> d]
    /\ out_path = "" /\ crows = <<>> /\ indices = <<>> /\ pos = 0
    /\ cpc = "start"
    /\ AlignIdle /\ GroupIdle /\ QualIdle /\ ValidIdle /\ ShardIdle /\ RunIdle
    /\ CandIdle

reviewOther == <<alignVars, groupVars, qualVars, validVars, shardVars, runVars,
                 candVars>>

\* indices: the 0-based positions of the records to review
Indices(recs, mode) ==
    LET Listed(i) == mode # "unmatched" \/ Get(recs[i + 1], "status") = Some("unmatched")
        RECURSIVE From(_)
        From(i) == IF i >= Len(recs) THEN <<>>
                   ELSE (IF Listed(i) THEN <<i>> ELSE <<>>) \o From(i + 1)
    IN From(0)

\* out_path of main()
OutPath(a) == IF a.out # None THEN a.out[1] ELSE a.cutlist \o ".reviewed.jsonl"

\* main() up to the launch of the page.
ReviewerStarts ==
    /\ cpc = "start"
    /\ IF fs[cargs.cutlist] = None \/ ~cargs.audio_root_is_dir
          THEN /\ cpc' = "fatal"
               /\ UNCHANGED <<crows, out_path, indices>>
          ELSE /\ crows' = _load_cutlist(fs[cargs.cutlist][1])
               /\ out_path' = OutPath(cargs)
               /\ indices' = Indices(crows', cargs.mode)
               /\ cpc' = IF indices' = <<>> THEN "done" ELSE "page"
    /\ UNCHANGED <<fs, cargs, pos, reviewOther>>

\* _save_and_stay
SaveAndStay ==
    /\ cpc = "page"
    /\ \E text \in TextInputs, v \in Verdicts, note \in Notes :
          crows' = [crows EXCEPT ![indices[pos + 1] + 1] =
                        _save_edit_logic(@, text, v, note)]
    /\ UNCHANGED <<fs, cargs, out_path, indices, pos, cpc, reviewOther>>

\* _save_and_next
SaveAndNext ==
    /\ cpc = "page"
    /\ \E text \in TextInputs, v \in Verdicts, note \in Notes :
          crows' = [crows EXCEPT ![indices[pos + 1] + 1] =
                        _save_edit_logic(@, text, v, note)]
    /\ pos' = IF pos + 1 >= Len(indices) THEN pos ELSE pos + 1
    /\ UNCHANGED <<fs, cargs, out_path, indices, cpc, reviewOther>>

\* _prev
Prev ==
    /\ cpc = "page"
    /\ pos' = Max(0, pos - 1)
    /\ UNCHANGED <<fs, cargs, out_path, crows, indices, cpc, reviewOther>>

\* _next
NextItem ==
    /\ cpc = "page"
    /\ pos' = Min(Len(indices) - 1, pos + 1)
    /\ UNCHANGED <<fs, cargs, out_path, crows, indices, cpc, reviewOther>>

\* _go_to_by_value: the value names the record idx, or names none
GoToByValue ==
    /\ cpc = "page"
    /\ \E idx \in 0 - 1 .. Len(crows) - 1 :
          pos' = IF \E p \in 1 .. Len(indices) : indices[p] = idx
                    THEN (CHOOSE p \in 1 .. Len(indices) : indices[p] = idx) - 1
                    ELSE 0
    /\ UNCHANGED <<fs, cargs, out_path, crows, indices, cpc, reviewOther>>

\* _save_file
SaveFile ==
    /\ cpc = "page"
    /\ fs' = [fs EXCEPT ![out_path] = Some(_dump_cutlist(crows))]
    /\ UNCHANGED <<cargs, out_path, crows, indices, pos, cpc, reviewOther>>

NextReview ==
    \/ ReviewerStarts
    \/ SaveAndStay
    \/ SaveAndNext
    \/ Prev
    \/ NextItem
    \/ GoToByValue
    \/ SaveFile

SpecReview == InitReview /\ [][NextReview]_vars

----------------------------------------------------------------------------
(***************************************************************************)
(* The reviewer, checked under SpecReview.                                 *)
(***************************************************************************)

\* The file written holds, line by line, the records in memory without
\* their underscore fields and with every other field as it is.
WrittenFrom(written, recs) ==
    /\ Len(written) = Len(recs)
    /\ \A i \in 1 .. Len(recs) :
          /\ \A k \in Keys(written[i]) : Ch(k, 0) # "_" /\ k \in Keys(recs[i])
          /\ \A k \in Keys(recs[i]) :
                Ch(k, 0) # "_" => (k \in Keys(written[i])
                                   /\ Get(written[i], k) = Get(recs[i], k))
          \* the fields keep their order
          /\ \A a, b \in 1 .. Len(written[i]) :
                a < b => \E x, y \in 1 .. Len(recs[i]) :
                            /\ x < y
                            /\ recs[i][x] = written[i][a]
                            /\ recs[i][y] = written[i][b]

\* C23: writing a cutlist back from the reviewer never persists a field
\* whose name starts with an underscore, and writes every other field of
\* every record unchanged, one record per line in the loaded order.
C23_DumpDropsOnlyTransient ==
    [][SaveFile => (fs'[out_path] # None /\ WrittenFrom(fs'[out_path][1], crows))]_vars

\* A file has been written from records of which one has an underscore
\* field of another tool and a review.
C23_Witness ==
    /\ cpc = "page" /\ fs[out_path] # None
    /\ fs[out_path][1] = _dump_cutlist(crows)
    /\ \E i \in 1 .. Len(crows) :
          /\ Has(crows[i], "_tmp")
          /\ Has(fs[out_path][1][i], "review")

AlignmentFields == {"src_audio", "start", "end", "sim", "status"}
EditedFields == {"text", "text_orig", "review"}

\* The field k is the same in the records a and b: there in both with one
\* value, or in neither.
SameField(a, b, k) == Has(a, k) = Has(b, k) /\ Get(a, k) = Get(b, k)

\* What every step of the page leaves alone: the alignment fields of every
\* record, every record but the selected one, and of the selected one
\* every field but text, text_orig and review.
StepKeepsAlignment ==
    cpc = "page" =>
        /\ Len(crows') = Len(crows)
        /\ \A i \in 1 .. Len(crows) :
              /\ \A k \in AlignmentFields : SameField(crows'[i], crows[i], k)
              /\ i # indices[pos + 1] + 1 => crows'[i] = crows[i]
              /\ \A k \in (Keys(crows[i]) \cup Keys(crows'[i])) \ EditedFields :
                    SameField(crows'[i], crows[i], k)

\* The load gives every record the alignment fields of its line.
LoadKeepsAlignment ==
    (cpc = "start" /\ cpc' # "fatal") =>
        /\ Len(crows') = Len(fs[cargs.cutlist][1])
        /\ \A i \in 1 .. Len(crows') : \A k \in AlignmentFields :
              SameField(crows'[i], fs[cargs.cutlist][1][i], k)

\* C24: after any sequence of navigation and save actions the alignment
\* fields src_audio, start, end, sim and status of every record equal the
\* values loaded from the cutlist; a save changes only the text, text_orig
\* and review fields of the currently selected record.
C24_AlignmentImmutable ==
    [][LoadKeepsAlignment /\ StepKeepsAlignment]_vars

\* The second record of the list has been edited: it has a review and a
\* text_orig it did not come with.
C24_Witness ==
    /\ cpc = "page" /\ pos = 1
    /\ Has(crows[indices[2] + 1], "review")
    /\ Has(crows[indices[2] + 1], "text_orig")
    /\ ~Has(fs[cargs.cutlist][1][indices[2] + 1], "text_orig")
    /\ cargs.out # Some(cargs.cutlist)

\* C25: saving from the reviewer writes to a separate output file: no
\* sequence of edits and writes modifies the file given by --cutlist.
C25_OriginalUntouched ==
    [][cpc # "idle" => fs'[cargs.cutlist] = fs[cargs.cutlist]]_vars

----------------------------------------------------------------------------
(***************************************************************************)
(* _best_match_sequential(), lines 164-176: the candidate start positions  *)
(* of one chunk, with the first loop taken one iteration at a time so      *)
(* that recordings of thousands of words are within reach.  Of the         *)
(* transcript the two loops read its length and, for each position,        *)
(* whether the anchor token there is the chunk's first token: a recording  *)
(* is given by its length and by where the first token occurs (nowhere,    *)
(* everywhere, at the odd positions).                                      *)
(***************************************************************************)

MaxScan == 4
DefaultMaxCandidates == 2000

Anchors == {"none", "all", "odd"}
\* transcript[i].token == first
TokenIsFirst(st, i) ==
    IF st.anchors = "all" THEN TRUE
    ELSE IF st.anchors = "odd" THEN i % 2 = 1
    ELSE FALSE

\* step = max(1, int(len(transcript) / 2000))
ProbeStep(n) == Max(1, n \div ProbeCount)

\* list(range(lo, stop, step)), by the length Python gives a range
ProbeRange(lo, stop, step) ==
    [k \in 1 .. Max(0, (stop - lo + step - 1) \div step) |-> lo + (k - 1) * step]

InitCandidates ==
    /\ \/ /\ \E n \in 0 .. MaxScan, a \in Anchors : stream = [n |-> n, anchors |-> a]
          /\ scan_from \in 0 .. stream.n
          /\ scan_cap \in {0, 1, 2}
       \/ /\ \E n \in {ProbeCount, ProbeCount + 1, 2 * ProbeCount - 1, 2 * ProbeCount},
                a \in {"none", "all"} : stream = [n |-> n, anchors |-> a]
          /\ scan_from \in {0, 1}
          /\ scan_cap \in {0, DefaultMaxCandidates}
    /\ scan_i = scan_from /\ scan_positions = <<>> /\ kpc = "scan"
    /\ AlignIdle /\ GroupIdle /\ QualIdle /\ ValidIdle /\ ShardIdle
    /\ RunIdle /\ ReviewIdle

candOther == <<alignVars, groupVars, qualVars, validVars, shardVars, runVars,
               reviewVars>>

\* One iteration of `for i in range(start_from, len(transcript))`.
ScanStep ==
    /\ kpc = "scan" /\ scan_i < stream.n
    /\ IF TokenIsFirst(stream, scan_i)
          THEN /\ scan_positions' = Append(scan_positions, scan_i)
               /\ kpc' = IF scan_cap # 0 /\ Len(scan_positions') >= scan_cap
                            THEN "scanned" ELSE "scan"
          ELSE UNCHANGED <<scan_positions, kpc>>
    /\ scan_i' = scan_i + 1
    /\ UNCHANGED <<stream, scan_from, scan_cap, candOther>>

\* The end of the first loop, and the fallback when it found nothing.
ScanEnds ==
    /\ IF kpc = "scan" THEN scan_i >= stream.n ELSE kpc = "scanned"
    /\ scan_positions' = IF scan_positions = <<>>
                       THEN ProbeRange(scan_from, stream.n, ProbeStep(stream.n))
                       ELSE scan_positions
    /\ kpc' = "done"
    /\ UNCHANGED <<stream, scan_from, scan_cap, scan_i, candOther>>

NextCandidates ==
    \/ ScanStep
    \/ ScanEnds

SpecCandidates == InitCandidates /\ [][NextCandidates]_vars

----------------------------------------------------------------------------
(***************************************************************************)
(* The candidate positions, checked under SpecCandidates.                  *)
(***************************************************************************)

\* The positions at or after start_from that carry the first token.
AnchorPositions == {i \in scan_from .. stream.n - 1 : TokenIsFirst(stream, i)}

Ascending(sq) == \A a, b \in 1 .. Len(sq) : a < b => sq[a] < sq[b]

\* The candidates are the first anchor positions, ascending, capped by a
\* positive max_candidates.
FromAnchors ==
    /\ Ascending(scan_positions)
    /\ Elems(scan_positions) \subseteq AnchorPositions
    /\ \A i \in AnchorPositions \ Elems(scan_positions) :
          \A q \in Elems(scan_positions) : q < i
    /\ IF scan_cap > 0
          THEN Len(scan_positions) = Min(scan_cap, Cardinality(AnchorPositions))
          ELSE Len(scan_positions) = Cardinality(AnchorPositions)

\* The candidates are evenly spaced probes from start_from onward, at most
\* 2000 of them.
FromProbes ==
    /\ Elems(scan_positions) \subseteq scan_from .. stream.n - 1
    /\ (scan_from < stream.n) => (scan_positions # <<>> /\ scan_positions[1] = scan_from)
    /\ \A k \in 1 .. Len(scan_positions) - 1 :
          scan_positions[k + 1] - scan_positions[k] = ProbeStep(stream.n)
    /\ Len(scan_positions) <= ProbeCount

\* C26: the candidate start positions of a chunk are the positions at or
\* after the cursor whose anchor token is the chunk's first token,
\* ascending and at most max_candidates of them (a max_candidates of 0
\* asks for no cap); only when there is none are they evenly spaced probe
\* positions from the cursor onward, never more than 2000, so that with a
\* cap the number of candidates is bounded whatever the length of the
\* recording.
C26_CandidatesBounded ==
    kpc = "done" =>
        /\ IF AnchorPositions # {} THEN FromAnchors ELSE FromProbes
        /\ scan_cap > 0 => Len(scan_positions) <= Max(scan_cap, ProbeCount)

----------------------------------------------------------------------------
(***************************************************************************)
(* The termination of _split_long_sentence, checked under SpecGroup.       *)
(***************************************************************************)

\* Every iteration of the while loop, from `remaining` on, cuts at a
\* position >= 1 and leaves a shorter text.
RECURSIVE LoopMakesProgress(_, _)
LoopMakesProgress(remaining, maxl) ==
    IF remaining = "" \/ Len(remaining) <= maxl THEN TRUE
    ELSE LET cut == CutPos(remaining, maxl)
             rest == RestAfterCut(remaining, cut)
         IN  /\ cut >= 1
             /\ Len(rest) < Len(remaining)
             /\ LoopMakesProgress(rest, maxl)

\* C30: for every sentence the expansion comes to and every max_len >= 1
\* the cutting loop of _split_long_sentence terminates: each iteration
\* cuts at a position >= 1 and so removes at least one character of the
\* remaining text.
C30_SplitTerminates ==
    (gpc = "expand" /\ si < Len(sentences) /\ max_len >= 1) =>
        (sentences[si + 1].isstr
            => LoopMakesProgress(Strip(sentences[si + 1].text), max_len))

\* A sentence that starts with a separator has gone through the loop
\* four times and has come out in five parts.
C30_Witness ==
    /\ gpc = "expand" /\ si = 1 /\ max_len = 1
    /\ Len(sentences) >= 1
    /\ sentences[1].isstr
    /\ Len(sentences[1].text) = MaxTotalLen
    /\ Ch(sentences[1].text, 0) = ","
    /\ Len(expanded) = MaxTotalLen

====
